---------------------------- MODULE MsgTokProofs ----------------------------
(* Proofs about module MsgTok, for lines of any length over any alphabet. *)
EXTENDS MsgTok, FiniteSetTheorems, SequenceTheorems, WellFoundedInduction, TLAPS

\* A set of positions has a first one.
LEMMA LeastIs ==
    ASSUME NEW S \in SUBSET Nat, S # {}
    PROVE  Least(S) \in S /\ \A q \in S : Least(S) <= q
<1>1. PICK n \in S : \A m \in S : ~ (<<m, n>> \in OpToRel(<, Nat))
  BY NatLessThanWellFounded, WFMin
<1>2. \A m \in S : ~ (m < n)
  BY <1>1 DEF OpToRel
<1>3. \A m \in S : n <= m
  <2>1. \A m \in S : m \in Nat /\ n \in Nat
    OBVIOUS
  <2>. QED
    BY <1>2, <2>1
<1>. QED
  BY <1>3 DEF Least

LEMMA LeastIsIt ==
    ASSUME NEW S \in SUBSET Nat, NEW n \in S, \A q \in S : n <= q
    PROVE  Least(S) = n
<1>1. PICK l \in S : l = Least(S) /\ \A q \in S : l <= q
  BY LeastIs
<1>2. l \in Nat /\ n \in Nat /\ l <= n /\ n <= l
  BY <1>1
<1>. QED
  BY <1>1, <1>2

-----------------------------------------------------------------------------
(* The line. *)

Chars == Others \cup {Space, Colon, NUL}
Received == body \o <<CR, LF, NUL>>
NoNul == \A p \in 1..Length : body[p] # NUL

TokTypes ==
    /\ body \in Seq(Chars)
    /\ buf \in Seq(Chars \cup {CR, LF}) /\ Len(buf) = Length + 3
    /\ saveptr \in Nat
    /\ tokens \in Seq([start : Nat, length : Nat])

\* From p on the line is as it was received.
Untouched(p) == \A q \in p..(Length + 3) : buf[q] = Received[q]

LEMMA ReceivedIs ==
    ASSUME body \in Seq(Chars)
    PROVE  /\ Length \in Nat
           /\ Received \in Seq(Chars \cup {CR, LF}) /\ Len(Received) = Length + 3
           /\ \A q \in 1..Length : Received[q] = body[q] /\ body[q] \in Chars
           /\ Received[Length + 1] = CR /\ Received[Length + 2] = LF
           /\ Received[Length + 3] = NUL
<1>1. body \in Seq(Chars \cup {CR, LF}) /\ <<CR, LF, NUL>> \in Seq(Chars \cup {CR, LF})
  BY DEF Chars
<1>2. Len(<<CR, LF, NUL>>) = 3
  OBVIOUS
<1>. QED
  BY <1>1, <1>2 DEF Received, Length

\* The alphabet: what the line is made of is no CR and no LF.
LEMMA CharsAre ==
    /\ CR \notin Chars /\ LF \notin Chars
    /\ CR # Space /\ CR # Colon /\ CR # LF /\ CR # NUL /\ LF # NUL /\ LF # Space
    /\ NUL # Space /\ NUL # Colon /\ Space # Colon
  BY CharsAssumption DEF Chars

\* Skipping spaces stops at the first other character, at CRLF at the latest.
LEMMA SkipTo ==
    ASSUME TokTypes, NEW e \in 1..(Length + 1), Untouched(e)
    PROVE  /\ SkipSpaces(e) \in e..(Length + 1)
           /\ buf[SkipSpaces(e)] # Space
           /\ \A q \in e..(SkipSpaces(e) - 1) : buf[q] = Space
<1>. DEFINE S == {q \in e..Len(buf) : buf[q] # Space}
<1>1. Length \in Nat /\ Len(buf) = Length + 3
  BY ReceivedIs DEF TokTypes
<1>2. buf[Length + 1] # Space
  BY <1>1, ReceivedIs, CharsAre DEF Untouched, TokTypes
<1>3. S \in SUBSET Nat /\ Length + 1 \in S
  BY <1>1, <1>2
<1>4. Least(S) \in S /\ \A q \in S : Least(S) <= q
  BY <1>3, LeastIs
<1>5. SkipSpaces(e) = Least(S)
  BY DEF SkipSpaces
<1>6. Least(S) \in e..(Length + 1)
  BY <1>1, <1>3, <1>4
<1>. QED
  BY <1>1, <1>4, <1>5, <1>6

\* A token starts where skipping stops, and none is passed over.
LEMMA SkipToStart ==
    ASSUME TokTypes, NEW e \in 1..(Length + 1), Untouched(e),
           e = 1 \/ body[e - 1] = Space
    PROVE  /\ SkipSpaces(e) \in Starts
           /\ \A q \in Starts : q >= e => q >= SkipSpaces(e)
<1>. DEFINE p == SkipSpaces(e)
<1>1. /\ p \in e..(Length + 1) /\ buf[p] # Space
      /\ \A q \in e..(p - 1) : buf[q] = Space
  BY SkipTo
<1>2. Length \in Nat /\ \A q \in 1..Length : q >= e => buf[q] = body[q]
  BY ReceivedIs DEF Untouched, TokTypes
<1>. HIDE DEF p
<1>3. \A q \in e..(p - 1) : body[q] = Space
  BY <1>1, <1>2
<1>4. p = 1 \/ body[p - 1] = Space
  <2>1. CASE p = e
    BY <2>1
  <2>2. CASE p # e
    BY <1>1, <1>2, <1>3, <2>2
  <2>. QED
    BY <2>1, <2>2
<1>5. p \in Starts
  BY <1>1, <1>2, <1>4 DEF Starts
<1>6. ASSUME NEW q \in Starts, q >= e, q < p PROVE FALSE
  BY <1>1, <1>2, <1>3, <1>6 DEF Starts
<1>7. \A q \in Starts : q \in Nat
  BY <1>2 DEF Starts
<1>. QED
  BY <1>1, <1>2, <1>5, <1>6, <1>7 DEF p

\* In an untouched rest without a NUL, strlen ends behind CRLF and strstr
\* finds CRLF.
LEMMA RestOfLine ==
    ASSUME TokTypes, NoNul, NEW p \in 1..(Length + 1), Untouched(p)
    PROVE  strlen(p) = Length + 3 - p /\ CrlfFrom(p) = {Length + 1}
<1>. DEFINE S == {q \in p..Len(buf) : buf[q] = NUL}
<1>1. Length \in Nat /\ Len(buf) = Length + 3
  BY ReceivedIs DEF TokTypes
<1>2. /\ \A q \in p..Length : buf[q] = body[q] /\ buf[q] # NUL /\ buf[q] # CR
      /\ buf[Length + 1] = CR /\ buf[Length + 2] = LF /\ buf[Length + 3] = NUL
  BY <1>1, ReceivedIs, CharsAre DEF Untouched, TokTypes, NoNul
<1>3. S = {Length + 3}
  <2>1. \A q \in p..(Length + 3) : q \in p..Length \/ q \in {Length + 1, Length + 2, Length + 3}
    BY <1>1
  <2>2. Length + 3 \in p..(Length + 3)
    BY <1>1
  <2>. QED
    BY <1>1, <1>2, <2>1, <2>2, CharsAre
<1>4. Least(S) = Length + 3
  <2>. HIDE DEF S
  <2>. QED
    BY <1>1, <1>3, LeastIsIt
<1>5. strlen(p) = Length + 3 - p
  <2>1. strlen(p) = Least(S) - p
    BY DEF strlen
  <2>. HIDE DEF S
  <2>2. PICK l \in Nat : l = Least(S)
    BY <1>1, <1>4
  <2>. QED
    BY <1>1, <1>4, <2>1, <2>2
<1>6. p + strlen(p) - 1 = Length + 2
  BY <1>1, <1>5
<1>7. CrlfFrom(p) = {q \in p..(Length + 2) : buf[q] = CR /\ buf[q + 1] = LF}
  BY <1>6 DEF CrlfFrom
<1>8. \A q \in p..(Length + 2) : q \in p..Length \/ q \in {Length + 1, Length + 2}
  BY <1>1
<1>9. Length + 1 \in p..(Length + 2) /\ (Length + 1) + 1 = Length + 2
  BY <1>1
<1>. QED
  BY <1>2, <1>5, <1>7, <1>8, <1>9, CharsAre

\* A NUL in the line hides CRLF.
LEMMA NulHides ==
    ASSUME TokTypes, ~NoNul, Untouched(1)
    PROVE  CrlfFrom(SkipSpaces(1)) = {}
<1>1. Length \in Nat /\ Len(buf) = Length + 3
  BY ReceivedIs DEF TokTypes
<1>2. PICK z \in 1..Length : body[z] = NUL
  BY DEF NoNul
<1>3. \A q \in 1..Length : buf[q] = body[q] /\ buf[q] # CR
  BY <1>1, ReceivedIs, CharsAre DEF Untouched, TokTypes
<1>. DEFINE p == SkipSpaces(1)
<1>4. p \in 1..z
  <2>1. /\ p \in 1..(Length + 1)
        /\ \A q \in 1..(p - 1) : buf[q] = Space
    BY <1>1, SkipTo
  <2>2. ~(z \in 1..(p - 1))
    BY <1>2, <1>3, <2>1, CharsAre
  <2>. QED
    BY <1>1, <2>1, <2>2
<1>. HIDE DEF p
<1>. DEFINE S == {q \in p..Len(buf) : buf[q] = NUL}
<1>5. S \in SUBSET Nat /\ z \in S
  BY <1>1, <1>2, <1>3, <1>4
<1>6. Least(S) \in p..z
  <2>1. Least(S) \in S /\ Least(S) <= z
    BY <1>5, LeastIs
  <2>. QED
    BY <1>1, <1>4, <2>1
<1>7. p + strlen(p) - 1 = Least(S) - 1
  BY <1>4, <1>6 DEF strlen
<1>8. \A q \in p..(Least(S) - 1) : q \in 1..Length
  BY <1>1, <1>4, <1>6
<1>9. CrlfFrom(p) = {}
  <2>. HIDE DEF S
  <2>. QED
    BY <1>3, <1>7, <1>8 DEF CrlfFrom
<1>. QED
  BY <1>9 DEF p

-----------------------------------------------------------------------------
(* The tokens of the line: where they start, end, and how they are ordered. *)

EndOfWord(s) == Least({q \in s..(Length + 1) : q = Length + 1 \/ body[q] = Space})
TokenEnd(s) == IF IsColon(s) THEN Length + 1 ELSE EndOfWord(s)
TokenOf(s) ==
    [start |-> IF IsColon(s) THEN s + 1 ELSE s,
     length |-> TokenEnd(s) - (IF IsColon(s) THEN s + 1 ELSE s)]

\* The starts up to s, and how many they are.
UpTo(s) == {q \in ExpectedStarts : q <= s}
Rank(s) == Cardinality(UpTo(s))

LEMMA StartsAre ==
    ASSUME Length \in Nat
    PROVE  ExpectedStarts \subseteq Starts /\ Starts \subseteq 1..(Length + 1)
  BY DEF ExpectedStarts, Starts

LEMMA EndOfWordIs ==
    ASSUME Length \in Nat, NEW s \in 1..(Length + 1)
    PROVE  /\ EndOfWord(s) \in s..(Length + 1)
           /\ EndOfWord(s) = Length + 1 \/ body[EndOfWord(s)] = Space
           /\ \A q \in s..(EndOfWord(s) - 1) : body[q] # Space
<1>. DEFINE S == {q \in s..(Length + 1) : q = Length + 1 \/ body[q] = Space}
<1>1. S \in SUBSET Nat /\ Length + 1 \in S
  OBVIOUS
<1>2. Least(S) \in S /\ \A q \in S : Least(S) <= q
  BY <1>1, LeastIs
<1>3. PICK l \in S : l = Least(S) /\ \A q \in S : l <= q
  BY <1>2
<1>4. l \in s..(Length + 1) /\ (l = Length + 1 \/ body[l] = Space)
  BY <1>3
<1>5. ASSUME NEW q \in s..(l - 1), body[q] = Space PROVE FALSE
  <2>1. q \in S /\ q < l
    BY <1>4, <1>5
  <2>. HIDE DEF S
  <2>. QED
    BY <1>3, <1>4, <2>1
<1>6. EndOfWord(s) = l
  BY <1>3 DEF EndOfWord
<1>. QED
  BY <1>4, <1>5, <1>6

LEMMA TokenEndIs ==
    ASSUME Length \in Nat, NEW s \in 1..(Length + 1)
    PROVE  /\ TokenEnd(s) \in s..(Length + 1)
           /\ TokenOf(s) \in [start : Nat, length : Nat]
           /\ TokenOf(s).start \in s..TokenEnd(s)
           /\ TokenOf(s).start + TokenOf(s).length = TokenEnd(s)
<1>1. PICK e \in s..(Length + 1) : e = EndOfWord(s)
  BY EndOfWordIs
<1>2. CASE IsColon(s)
  <2>1. s <= Length /\ TokenEnd(s) = Length + 1
    BY <1>2 DEF IsColon, TokenEnd
  <2>2. TokenOf(s) = [start |-> s + 1, length |-> (Length + 1) - (s + 1)]
    BY <1>2, <2>1 DEF TokenOf
  <2>. QED
    BY <2>1, <2>2
<1>3. CASE ~IsColon(s)
  <2>1. TokenEnd(s) = e /\ TokenOf(s) = [start |-> s, length |-> e - s]
    BY <1>1, <1>3 DEF TokenEnd, TokenOf
  <2>. QED
    BY <2>1
<1>. QED
  BY <1>2, <1>3

\* The first token starts behind the leading spaces.
LEMMA FirstStart ==
    ASSUME NEW p \in Starts, NoNul, Length \in Nat, \A q \in Starts : q >= p
    PROVE  p \in ExpectedStarts /\ UpTo(p) = {p}
<1>1. p \in ExpectedStarts
  BY DEF ExpectedStarts, NoNul
<1>2. \A q \in ExpectedStarts : q >= p /\ q \in Nat /\ p \in Nat
  BY <1>1, StartsAre
<1>. QED
  BY <1>1, <1>2 DEF UpTo

\* The next one starts behind the spaces after a word: none starts between.
LEMMA NextStart ==
    ASSUME NoNul, Length \in Nat, NEW s \in ExpectedStarts, ~IsColon(s),
           NEW p \in Starts, p > EndOfWord(s),
           \A q \in Starts : q > EndOfWord(s) => q >= p
    PROVE  p \in ExpectedStarts /\ UpTo(p) = UpTo(s) \cup {p} /\ p \notin UpTo(s)
<1>. DEFINE e == EndOfWord(s)
<1>1. /\ s \in Starts /\ s \in 1..(Length + 1) /\ p \in 1..(Length + 1)
      /\ e \in s..(Length + 1) /\ \A q \in s..(e - 1) : body[q] # Space
  BY StartsAre, EndOfWordIs
<1>. HIDE DEF e
<1>2. ASSUME NEW q \in Starts, q > s PROVE q >= p
  <2>1. q \in 1..(Length + 1) /\ body[q - 1] = Space
    BY <1>1, <1>2 DEF Starts
  <2>2. ~(q - 1 \in s..(e - 1))
    BY <1>1, <2>1
  <2>3. q > e
    BY <1>1, <1>2, <2>1, <2>2
  <2>. QED
    BY <2>3 DEF e
<1>3. p > s
  <2>1. p > e
    BY DEF e
  <2>. QED
    BY <1>1, <2>1
<1>4. \A q \in Starts : IsColon(q) => s <= q /\ q # s /\ q \in Nat
  BY StartsAre DEF ExpectedStarts, NoNul
<1>5. \A q \in Starts : IsColon(q) => p <= q
  BY <1>1, <1>2, <1>4
<1>6. p \in ExpectedStarts
  BY <1>5 DEF ExpectedStarts, NoNul
<1>7. \A q \in ExpectedStarts : q \in Starts /\ q \in Nat
  BY StartsAre
<1>. QED
  BY <1>1, <1>2, <1>3, <1>6, <1>7 DEF UpTo

\* After a token that takes the rest of the line none starts.
LEMMA LastStart ==
    ASSUME NoNul, Length \in Nat, NEW s \in ExpectedStarts,
           TokenEnd(s) = Length + 1
    PROVE  UpTo(s) = ExpectedStarts
<1>1. s \in Starts /\ s \in 1..(Length + 1)
  BY StartsAre
<1>2. ASSUME NEW q \in ExpectedStarts, q > s PROVE FALSE
  <2>1. q \in Starts /\ q \in 1..(Length + 1) /\ body[q - 1] = Space
    BY <1>1, <1>2, StartsAre DEF Starts
  <2>2. CASE IsColon(s)
    <3>1. q <= s
      BY <1>1, <2>2 DEF ExpectedStarts, NoNul
    <3>. QED
      BY <1>1, <1>2, <2>1, <3>1
  <2>3. CASE ~IsColon(s)
    <3>1. EndOfWord(s) = Length + 1
      BY <2>3 DEF TokenEnd
    <3>2. \A r \in s..Length : body[r] # Space
      BY <1>1, <3>1, EndOfWordIs
    <3>. QED
      BY <1>1, <1>2, <2>1, <3>2
  <2>. QED
    BY <2>2, <2>3
<1>3. \A q \in ExpectedStarts : q \in Nat
  BY StartsAre
<1>4. \A q \in ExpectedStarts : q <= s
  BY <1>1, <1>2, <1>3
<1>. QED
  BY <1>4 DEF UpTo

LEMMA RankIs ==
    ASSUME Length \in Nat
    PROVE  /\ IsFiniteSet(ExpectedStarts)
           /\ \A s \in ExpectedStarts :
                 /\ IsFiniteSet(UpTo(s)) /\ Rank(s) \in Nat
                 /\ Rank(s) <= Cardinality(ExpectedStarts)
<1>1. IsFiniteSet(1..(Length + 1)) /\ ExpectedStarts \in SUBSET (1..(Length + 1))
  BY StartsAre, FS_Interval
<1>2. IsFiniteSet(ExpectedStarts)
  BY <1>1, FS_Subset
<1>3. ASSUME NEW s \in ExpectedStarts
      PROVE  /\ IsFiniteSet(UpTo(s)) /\ Rank(s) \in Nat
             /\ Rank(s) <= Cardinality(ExpectedStarts)
  <2>1. UpTo(s) \in SUBSET ExpectedStarts
    BY DEF UpTo
  <2>2. IsFiniteSet(UpTo(s)) /\ Rank(s) <= Cardinality(ExpectedStarts)
    BY <1>2, <2>1, FS_Subset DEF Rank
  <2>. QED
    BY <2>2, FS_CardinalityType DEF Rank
<1>. QED
  BY <1>2, <1>3

\* A start is known by its rank.
LEMMA RankTells ==
    ASSUME Length \in Nat, NEW s \in ExpectedStarts, NEW r \in ExpectedStarts,
           Rank(s) = Rank(r)
    PROVE  s = r
<1>0. \A q \in ExpectedStarts : q \in Nat
  BY StartsAre
<1>1. s \in Nat /\ r \in Nat /\ s \in UpTo(s) /\ r \in UpTo(r)
  BY <1>0 DEF UpTo
<1>2. IsFiniteSet(UpTo(s)) /\ IsFiniteSet(UpTo(r))
  BY RankIs
<1>3. CASE s <= r
  <2>0. \A q \in ExpectedStarts : q <= s => q <= r
    BY <1>0, <1>1, <1>3
  <2>1. UpTo(s) \in SUBSET UpTo(r)
    BY <2>0 DEF UpTo
  <2>2. UpTo(s) = UpTo(r)
    BY <1>2, <2>1, FS_Subset DEF Rank
  <2>. QED
    BY <1>1, <1>3, <2>2 DEF UpTo
<1>4. CASE r <= s
  <2>0. \A q \in ExpectedStarts : q <= r => q <= s
    BY <1>0, <1>1, <1>4
  <2>1. UpTo(r) \in SUBSET UpTo(s)
    BY <2>0 DEF UpTo
  <2>2. UpTo(s) = UpTo(r)
    BY <1>2, <2>1, FS_Subset DEF Rank
  <2>. QED
    BY <1>1, <1>4, <2>2 DEF UpTo
<1>. QED
  BY <1>1, <1>3, <1>4

LEMMA NthIs ==
    ASSUME Length \in Nat, NEW s \in ExpectedStarts
    PROVE  Nth(Rank(s)) = s
<1>1. \A p \in ExpectedStarts : Cardinality({q \in ExpectedStarts : q <= p}) = Rank(p)
  BY DEF Rank, UpTo
<1>2. Nth(Rank(s)) = CHOOSE p \in ExpectedStarts : Rank(p) = Rank(s)
  BY <1>1 DEF Nth
<1>3. \A p \in ExpectedStarts : Rank(p) = Rank(s) => p = s
  BY RankTells
<1>. QED
  BY <1>2, <1>3

-----------------------------------------------------------------------------
(* One call. *)

\* A word ends at the first space, if there is one before CRLF.
LEMMA SpacesOf ==
    ASSUME TokTypes, NEW str \in 1..(Length + 1), Untouched(str),
           NEW spaces, spaces = {p \in str..Length : buf[p] = Space}
    PROVE  /\ spaces = {} => EndOfWord(str) = Length + 1
           /\ spaces # {} => /\ Least(spaces) = EndOfWord(str)
                             /\ EndOfWord(str) <= Length
                             /\ body[EndOfWord(str)] = Space
<1>1. Length \in Nat /\ \A q \in str..Length : buf[q] = body[q]
  BY ReceivedIs DEF TokTypes, Untouched
<1>2. PICK e \in str..(Length + 1) :
          /\ e = EndOfWord(str)
          /\ e = Length + 1 \/ body[e] = Space
          /\ \A q \in str..(e - 1) : body[q] # Space
  BY <1>1, EndOfWordIs
<1>3. CASE spaces = {}
  <2>1. ~(e \in str..Length)
    BY <1>1, <1>2, <1>3
  <2>. QED
    BY <1>1, <1>2, <1>3, <2>1
<1>4. CASE spaces # {}
  <2>1. PICK p \in str..Length : body[p] = Space
    BY <1>1, <1>4
  <2>2. ~(p \in str..(e - 1))
    BY <1>2, <2>1
  <2>3. e \in spaces /\ e <= Length /\ body[e] = Space
    BY <1>1, <1>2, <2>1, <2>2
  <2>4. \A q \in spaces : e <= q
    <3>1. \A q \in str..Length : ~(q \in str..(e - 1)) => e <= q
      BY <1>1
    <3>. QED
      BY <1>1, <1>2, <3>1
  <2>5. spaces \in SUBSET Nat
    BY <1>1
  <2>6. Least(spaces) = e
    BY <2>3, <2>4, <2>5, LeastIsIt
  <2>. QED
    BY <1>2, <1>4, <2>3, <2>6
<1>. QED
  BY <1>3, <1>4

\* A call that starts on a token returns it.
LEMMA CallReturns ==
    ASSUME TokTypes, NoNul, NEW str \in ExpectedStarts, Untouched(str),
           TokenAt(str)
    PROVE  /\ ended' = ended
           /\ tokens' = Append(tokens, TokenOf(str))
           /\ buf' = Cut(TokenEnd(str))
           /\ \/ saveptr' = 0 /\ TokenEnd(str) = Length + 1
              \/ /\ ~IsColon(str) /\ TokenEnd(str) = EndOfWord(str)
                 /\ EndOfWord(str) <= Length /\ body[EndOfWord(str)] = Space
                 /\ saveptr' = SkipSpaces(EndOfWord(str) + 1)
<1>1. Length \in Nat /\ str \in 1..(Length + 1)
  BY ReceivedIs, StartsAre DEF TokTypes
<1>2. CrlfFrom(str) = {Length + 1}
  BY <1>1, RestOfLine
<1>3. Least(CrlfFrom(str)) = Length + 1
  <2>. DEFINE crlf == CrlfFrom(str)
  <2>1. crlf \in SUBSET Nat /\ Length + 1 \in crlf /\ \A q \in crlf : Length + 1 <= q
    BY <1>1, <1>2
  <2>. HIDE DEF crlf
  <2>2. Least(crlf) = Length + 1
    BY <2>1, LeastIsIt
  <2>. QED
    BY <2>2 DEF crlf
<1>4. IsTrailing(str) <=> IsColon(str)
  <2>1. str <= Length => Received[str] = body[str]
    BY <1>1, ReceivedIs DEF TokTypes
  <2>2. str > Length => Received[str] = CR
    <3>1. str > Length => str = Length + 1
      BY <1>1
    <3>. QED
      BY <3>1, ReceivedIs DEF TokTypes
  <2>3. buf[str] = Received[str]
    BY <1>1 DEF Untouched
  <2>. QED
    BY <1>1, <2>1, <2>2, <2>3, CharsAre DEF IsTrailing, IsColon
<1>. DEFINE end == Least(CrlfFrom(str))
            spaces == {p \in str..(end - 1) : buf[p] = Space}
<1>5. spaces = {p \in str..Length : buf[p] = Space}
  BY <1>1, <1>3
<1>. HIDE DEF spaces
<1>6. /\ spaces = {} => EndOfWord(str) = Length + 1
      /\ spaces # {} => /\ Least(spaces) = EndOfWord(str)
                        /\ EndOfWord(str) <= Length
                        /\ body[EndOfWord(str)] = Space
  BY <1>1, <1>5, SpacesOf
<1>7. CrlfFrom(str) # {}
  BY <1>2
<1>8. \/ /\ IsColon(str)
         /\ Return(str + 1, end - (str + 1))
         /\ buf' = Cut(end) /\ saveptr' = 0 /\ ended' = ended
      \/ /\ ~IsColon(str) /\ spaces # {}
         /\ Return(str, Least(spaces) - str)
         /\ buf' = Cut(Least(spaces))
         /\ saveptr' = SkipSpaces(Least(spaces) + 1) /\ ended' = ended
      \/ /\ ~IsColon(str) /\ spaces = {}
         /\ Return(str, end - str)
         /\ buf' = Cut(end) /\ saveptr' = 0 /\ ended' = ended
  BY <1>4, <1>7 DEF TokenAt, ResumeAfter, spaces
<1>. HIDE DEF end
<1>9. end = Length + 1
  BY <1>3 DEF end
<1>10. CASE IsColon(str)
  BY <1>8, <1>9, <1>10 DEF Return, TokenOf, TokenEnd
<1>11. CASE ~IsColon(str) /\ spaces # {}
  BY <1>6, <1>8, <1>11 DEF Return, TokenOf, TokenEnd
<1>12. CASE ~IsColon(str) /\ spaces = {}
  BY <1>6, <1>8, <1>9, <1>12 DEF Return, TokenOf, TokenEnd
<1>. QED
  BY <1>10, <1>11, <1>12

-----------------------------------------------------------------------------
(* The inductive invariant. *)

\* Token t is the one that starts at s: the cut behind it is its terminator.
IsCut(s, t) ==
    /\ t = TokenOf(s)
    /\ buf[TokenEnd(s)] = NUL
    /\ \A q \in s..(TokenEnd(s) - 1) : buf[q] = body[q]

TokensAreCut ==
    \A i \in 1..Len(tokens) : \E s \in ExpectedStarts :
        /\ Rank(s) = i /\ IsCut(s, tokens[i])
        /\ saveptr # 0 => TokenEnd(s) < saveptr

\* The next call starts on the next token, and nothing from there on is cut.
Resumes ==
    saveptr # 0 =>
        /\ NoNul /\ saveptr \in ExpectedStarts
        /\ Rank(saveptr) = Len(tokens) + 1
        /\ Untouched(saveptr)

TokInv ==
    /\ TokTypes
    /\ ~called => /\ tokens = <<>> /\ saveptr = 0 /\ ~ended
                  /\ Untouched(1)
    /\ TokensAreCut
    /\ Resumes
    /\ called /\ saveptr = 0 => Len(tokens) = Cardinality(ExpectedStarts)
    /\ ended => called /\ saveptr = 0

LEMMA SameLine ==
    ASSUME body' = body
    PROVE  /\ Length' = Length /\ NoNul' = NoNul /\ Received' = Received
           /\ ExpectedStarts' = ExpectedStarts
           /\ \A s \in ExpectedStarts :
                 Rank(s)' = Rank(s) /\ TokenOf(s)' = TokenOf(s)
                 /\ TokenEnd(s)' = TokenEnd(s)
<1>1. Length' = Length
  BY DEF Length
<1>2. \A s : IsColon(s)' = IsColon(s)
  BY <1>1 DEF IsColon
<1>3. Starts' = Starts
  BY <1>1 DEF Starts
<1>4. ExpectedStarts' = ExpectedStarts
  BY <1>1, <1>2, <1>3 DEF ExpectedStarts
<1>5. \A s : EndOfWord(s)' = EndOfWord(s)
  BY <1>1 DEF EndOfWord, Least
<1>6. \A s : TokenEnd(s)' = TokenEnd(s)
  BY <1>1, <1>2, <1>5 DEF TokenEnd
<1>7. \A s : TokenOf(s)' = TokenOf(s)
  BY <1>2, <1>6 DEF TokenOf
<1>8. \A s : Rank(s)' = Rank(s)
  BY <1>4 DEF Rank, UpTo
<1>. QED
  BY <1>1, <1>4, <1>6, <1>7, <1>8 DEF NoNul, Received

\* A call that returns a token keeps the invariant: the new token is the next
\* one, its cut lies beyond the earlier tokens and before what is left.
LEMMA CallKeeps ==
    ASSUME TokTypes, NoNul, NEW str \in ExpectedStarts, Untouched(str),
           TokenAt(str), body' = body, called', ~ended,
           Rank(str) = Len(tokens) + 1,
           \A i \in 1..Len(tokens) : \E s \in ExpectedStarts :
               Rank(s) = i /\ IsCut(s, tokens[i]) /\ TokenEnd(s) < str
    PROVE  TokInv'
<1>1. PICK e \in str..(Length + 1) : e = TokenEnd(str)
  BY StartsAre, ReceivedIs, TokenEndIs DEF TokTypes
<1>2. /\ Length \in Nat /\ str \in Starts /\ str \in 1..(Length + 1)
      /\ e \in 1..(Length + 1) /\ str <= e
  BY <1>1, ReceivedIs, StartsAre DEF TokTypes
<1>3. /\ ended' = ended
      /\ tokens' = Append(tokens, TokenOf(str))
      /\ buf' = [buf EXCEPT ![e] = NUL]
      /\ \/ saveptr' = 0 /\ e = Length + 1
         \/ /\ ~IsColon(str) /\ e = EndOfWord(str) /\ e <= Length
            /\ body[e] = Space /\ saveptr' = SkipSpaces(e + 1)
  BY <1>1, CallReturns DEF Cut
<1>4. /\ buf' \in Seq(Chars \cup {CR, LF}) /\ Len(buf') = Length + 3
      /\ buf'[e] = NUL /\ \A q \in 1..(Length + 3) : q # e => buf'[q] = buf[q]
  <2>1. buf \in Seq(Chars \cup {CR, LF}) /\ e \in 1..Len(buf) /\ Len(buf) = Length + 3
        /\ NUL \in Chars \cup {CR, LF}
    BY <1>2 DEF TokTypes, Chars
  <2>. QED
    BY <1>3, <2>1, ExceptSeq
<1>5. /\ tokens \in Seq([start : Nat, length : Nat])
      /\ tokens' \in Seq([start : Nat, length : Nat])
      /\ Len(tokens') = Len(tokens) + 1 /\ Len(tokens) \in Nat
      /\ \A i \in 1..Len(tokens) : tokens'[i] = tokens[i]
      /\ tokens'[Len(tokens) + 1] = TokenOf(str)
  <2>1. TokenOf(str) \in [start : Nat, length : Nat]
    BY <1>2, TokenEndIs
  <2>2. tokens \in Seq([start : Nat, length : Nat])
    BY DEF TokTypes
  <2>. QED
    BY <1>3, <2>1, <2>2, AppendProperties
<1>6. saveptr' # 0 =>
         /\ saveptr' \in (e + 1)..(Length + 1)
         /\ saveptr' \in ExpectedStarts
         /\ Rank(saveptr') = Len(tokens) + 2
  <2>. SUFFICES ASSUME saveptr' # 0
                PROVE  /\ saveptr' \in (e + 1)..(Length + 1)
                       /\ saveptr' \in ExpectedStarts
                       /\ Rank(saveptr') = Len(tokens) + 2
    OBVIOUS
  <2>. DEFINE p == SkipSpaces(e + 1)
  <2>1. /\ ~IsColon(str) /\ e = EndOfWord(str) /\ e <= Length
        /\ body[e] = Space /\ saveptr' = p
    BY <1>3
  <2>2. e + 1 \in 1..(Length + 1) /\ Untouched(e + 1) /\ body[(e + 1) - 1] = Space
    BY <1>2, <2>1 DEF Untouched
  <2>3. p \in (e + 1)..(Length + 1)
    BY <2>2, SkipTo
  <2>4. p \in Starts /\ \A q \in Starts : q >= e + 1 => q >= p
    BY <2>2, SkipToStart
  <2>. HIDE DEF p
  <2>5. \A q \in Starts : q > e => q >= p
    BY <1>2, <2>4, StartsAre
  <2>6. p > e
    BY <1>2, <2>3
  <2>7. p \in ExpectedStarts /\ UpTo(p) = UpTo(str) \cup {p} /\ p \notin UpTo(str)
    BY <1>2, <2>1, <2>4, <2>5, <2>6, NextStart
  <2>8. Cardinality(UpTo(p)) = Cardinality(UpTo(str)) + 1
    BY <1>2, <2>7, RankIs, FS_AddElement
  <2>9. Rank(p) = (Len(tokens) + 1) + 1
    BY <2>8 DEF Rank
  <2>. QED
    BY <1>5, <2>1, <2>3, <2>7, <2>9
<1>7. saveptr' \in Nat
  BY <1>2, <1>6
<1>8. TokTypes'
  BY <1>4, <1>5, <1>7, SameLine DEF TokTypes
<1>9. ASSUME NEW i \in 1..Len(tokens')
      PROVE  \E s \in ExpectedStarts' :
                /\ Rank(s)' = i /\ IsCut(s, tokens[i])'
                /\ saveptr' # 0 => TokenEnd(s)' < saveptr'
  <2>1. CASE i \in 1..Len(tokens)
    <3>1. PICK s \in ExpectedStarts :
              Rank(s) = i /\ IsCut(s, tokens[i]) /\ TokenEnd(s) < str
      BY <2>1
    <3>2. s \in 1..(Length + 1) /\ TokenEnd(s) \in s..(Length + 1)
      BY <1>2, StartsAre, TokenEndIs
    <3>3. PICK d \in s..(Length + 1) : d = TokenEnd(s) /\ d < str
      BY <3>1, <3>2
    <3>4. buf[d] = NUL /\ \A q \in s..(d - 1) : buf[q] = body[q]
      BY <3>1, <3>3 DEF IsCut
    <3>5. buf'[d] = NUL
      BY <1>2, <1>4, <3>2, <3>3, <3>4
    <3>6. \A q \in s..(d - 1) : buf'[q] = body[q]
      BY <1>2, <1>4, <3>2, <3>3, <3>4
    <3>7. Rank(s)' = i /\ TokenOf(s)' = tokens'[i] /\ TokenEnd(s)' = d
      BY <1>5, <2>1, <3>1, <3>3, SameLine DEF IsCut
    <3>8. IsCut(s, tokens[i])'
      BY <3>5, <3>6, <3>7 DEF IsCut
    <3>9. saveptr' # 0 => d < saveptr'
      BY <1>2, <1>6, <3>3
    <3>. QED
      BY <3>1, <3>7, <3>8, <3>9, SameLine
  <2>2. CASE i = Len(tokens) + 1
    <3>1. Rank(str)' = i /\ TokenOf(str)' = tokens'[i] /\ TokenEnd(str)' = e
      BY <1>1, <1>5, <2>2, SameLine
    <3>2. \A q \in str..(e - 1) : buf'[q] = body[q]
      BY <1>2, <1>4, ReceivedIs DEF Untouched, TokTypes
    <3>3. IsCut(str, tokens[i])'
      BY <1>4, <3>1, <3>2 DEF IsCut
    <3>4. saveptr' # 0 => e < saveptr'
      BY <1>2, <1>6
    <3>. QED
      BY <3>1, <3>3, <3>4, SameLine
  <2>. QED
    BY <1>5, <2>1, <2>2
<1>10. TokensAreCut'
  BY <1>9 DEF TokensAreCut
<1>11. Resumes'
  <2>. SUFFICES ASSUME saveptr' # 0
                PROVE  /\ NoNul' /\ saveptr' \in ExpectedStarts'
                       /\ Rank(saveptr)' = Len(tokens') + 1
                       /\ Untouched(saveptr)'
    BY DEF Resumes
  <2>1. \A q \in saveptr'..(Length + 3) : buf'[q] = Received[q]
    BY <1>2, <1>4, <1>6 DEF Untouched
  <2>2. Untouched(saveptr)'
    BY <2>1, SameLine DEF Untouched
  <2>3. ExpectedStarts' = ExpectedStarts
    BY SameLine
  <2>4. Rank(saveptr)' = Rank(saveptr')
    BY <2>3 DEF Rank, UpTo
  <2>5. Len(tokens') + 1 = Len(tokens) + 2
    BY <1>5
  <2>. QED
    BY <1>6, <2>2, <2>3, <2>4, <2>5, SameLine
<1>12. saveptr' = 0 => Len(tokens') = Cardinality(ExpectedStarts')
  <2>. SUFFICES ASSUME saveptr' = 0
                PROVE  Len(tokens') = Cardinality(ExpectedStarts')
    OBVIOUS
  <2>1. e = Length + 1
    <3>1. CASE saveptr' = SkipSpaces(e + 1) /\ e <= Length
      <4>1. e + 1 \in 1..(Length + 1) /\ Untouched(e + 1)
        BY <1>2, <3>1 DEF Untouched
      <4>2. SkipSpaces(e + 1) \in (e + 1)..(Length + 1)
        BY <4>1, SkipTo
      <4>. QED
        BY <1>2, <3>1, <4>2
    <3>. QED
      BY <1>3, <3>1
  <2>2. UpTo(str) = ExpectedStarts
    BY <1>1, <1>2, <2>1, LastStart
  <2>. QED
    BY <1>5, <2>2, SameLine DEF Rank
<1>. QED
  BY <1>3, <1>8, <1>10, <1>11, <1>12 DEF TokInv

LEMMA TokInitInv == TokInit => TokInv
<1>. SUFFICES ASSUME TokInit PROVE TokInv
  OBVIOUS
<1>1. body \in Seq(Chars)
  BY DEF TokInit, Bodies, Chars
<1>2. buf = Received /\ saveptr = 0 /\ tokens = <<>> /\ ~called /\ ~ended
  BY DEF TokInit, Received
<1>3. TokTypes
  BY <1>1, <1>2, ReceivedIs DEF TokTypes
<1>. QED
  BY <1>2, <1>3 DEF TokInv, TokensAreCut, Resumes, Untouched

LEMMA FirstKeeps == TokInv /\ msgtok_first => TokInv'
<1>. SUFFICES ASSUME TokInv, msgtok_first PROVE TokInv'
  OBVIOUS
<1>1. /\ TokTypes /\ ~called /\ tokens = <<>> /\ saveptr = 0 /\ ~ended
      /\ Untouched(1) /\ called' /\ body' = body
      /\ TokenAt(SkipSpaces(1))
  BY DEF TokInv, msgtok_first
<1>2. Length \in Nat /\ 1 \in 1..(Length + 1)
  BY <1>1, ReceivedIs DEF TokTypes
<1>3. CASE NoNul
  <2>. DEFINE p == SkipSpaces(1)
  <2>1. p \in 1..(Length + 1)
    BY <1>1, <1>2, SkipTo
  <2>2. p \in Starts /\ \A q \in Starts : q >= 1 => q >= p
    BY <1>1, <1>2, SkipToStart
  <2>3. \A q \in Starts : q >= 1
    BY <1>2, StartsAre
  <2>. HIDE DEF p
  <2>4. p \in ExpectedStarts /\ UpTo(p) = {p}
    BY <1>2, <1>3, <2>2, <2>3, FirstStart
  <2>5. Rank(p) = Len(tokens) + 1
    <3>1. Rank(p) = 1
      BY <2>4, FS_Singleton DEF Rank
    <3>2. Len(tokens) = 0
      BY <1>1
    <3>. QED
      BY <3>1, <3>2
  <2>6. Untouched(p) /\ TokenAt(p)
    BY <1>1, <2>1 DEF Untouched, p
  <2>. QED
    BY <1>1, <1>3, <2>4, <2>5, <2>6, CallKeeps
<1>4. CASE ~NoNul
  <2>1. CrlfFrom(SkipSpaces(1)) = {}
    BY <1>1, <1>4, NulHides
  <2>2. ended' /\ buf' = buf /\ saveptr' = saveptr /\ tokens' = tokens
    BY <2>1, <1>1 DEF TokenAt
  <2>3. ExpectedStarts' = {} /\ Cardinality(ExpectedStarts') = 0
    BY <1>1, <1>4, SameLine, FS_EmptySet DEF ExpectedStarts, NoNul
  <2>4. TokTypes'
    BY <1>1, <2>2, SameLine DEF TokTypes
  <2>. QED
    BY <1>1, <2>2, <2>3, <2>4 DEF TokInv, TokensAreCut, Resumes
<1>. QED
  BY <1>3, <1>4

LEMMA NextKeeps == TokInv /\ msgtok_next => TokInv'
<1>. SUFFICES ASSUME TokInv, msgtok_next PROVE TokInv'
  OBVIOUS
<1>1. TokTypes /\ called /\ ~ended /\ called' /\ body' = body
  BY DEF TokInv, msgtok_next
<1>2. CASE saveptr = 0 /\ ended' /\ UNCHANGED <<buf, saveptr, tokens>>
  <2>1. TokTypes'
    BY <1>1, <1>2, SameLine DEF TokTypes
  <2>2. Len(tokens') = Cardinality(ExpectedStarts')
    BY <1>1, <1>2, SameLine DEF TokInv
  <2>3. TokensAreCut'
    BY <1>1, <1>2, SameLine DEF TokInv, TokensAreCut, IsCut
  <2>. QED
    BY <1>1, <1>2, <2>1, <2>2, <2>3 DEF TokInv, Resumes
<1>3. CASE saveptr # 0 /\ TokenAt(saveptr)
  <2>1. /\ NoNul /\ saveptr \in ExpectedStarts
        /\ Rank(saveptr) = Len(tokens) + 1 /\ Untouched(saveptr)
    BY <1>3 DEF TokInv, Resumes
  <2>2. \A i \in 1..Len(tokens) : \E s \in ExpectedStarts :
            Rank(s) = i /\ IsCut(s, tokens[i]) /\ TokenEnd(s) < saveptr
    BY <1>3 DEF TokInv, TokensAreCut
  <2>. QED
    BY <1>1, <1>3, <2>1, <2>2, CallKeeps
<1>. QED
  BY <1>2, <1>3 DEF msgtok_next

\* However often the tokenizer is called, on whatever line.
THEOREM TokInvariant == TokSpec => []TokInv
<1>1. TokInv /\ UNCHANGED tokVars => TokInv'
  <2>. SUFFICES ASSUME TokInv, UNCHANGED tokVars PROVE TokInv'
    OBVIOUS
  <2>1. UNCHANGED <<body, buf, saveptr, tokens, called, ended>>
    BY DEF tokVars
  <2>2. TokTypes' /\ Untouched(1)' = Untouched(1)
        /\ Untouched(saveptr)' = Untouched(saveptr)
    BY <2>1, SameLine DEF TokInv, TokTypes, Untouched
  <2>3. TokensAreCut'
    BY <2>1, SameLine DEF TokInv, TokensAreCut, IsCut
  <2>4. Resumes'
    <3>1. Rank(saveptr)' = Rank(saveptr)
      BY <2>1, SameLine DEF Rank, UpTo
    <3>. QED
      BY <2>1, <2>2, <3>1, SameLine DEF TokInv, Resumes
  <2>. QED
    BY <2>1, <2>2, <2>3, <2>4, SameLine DEF TokInv
<1>2. TokInv /\ [TokNext]_tokVars => TokInv'
  BY <1>1, FirstKeeps, NextKeeps DEF TokNext
<1>. QED
  BY TokInitInv, <1>2, PTL DEF TokSpec

-----------------------------------------------------------------------------
(* What the invariant says to the caller. *)

\* Between the cuts the text is that of the line.
LEMMA TextIs ==
    ASSUME NEW S, NEW a \in Seq(S), NEW b \in Seq(S), NEW m \in Nat, NEW n \in Nat,
           \A q \in m..n : a[q] = b[q] /\ b[q] \in S
    PROVE  SubSeq(a, m, n) = SubSeq(b, m, n)
<1>1. /\ SubSeq(a, m, n) \in Seq(S)
      /\ Len(SubSeq(a, m, n)) = IF m <= n THEN n - m + 1 ELSE 0
      /\ \A i \in 1..(n - m + 1) : SubSeq(a, m, n)[i] = a[m + i - 1]
  BY SubSeqProperties
<1>2. /\ SubSeq(b, m, n) \in Seq(S)
      /\ Len(SubSeq(b, m, n)) = IF m <= n THEN n - m + 1 ELSE 0
      /\ \A i \in 1..(n - m + 1) : SubSeq(b, m, n)[i] = b[m + i - 1]
  BY SubSeqProperties
<1>3. \A i \in 1..(n - m + 1) : m + i - 1 \in m..n
  OBVIOUS
<1>. DEFINE s == SubSeq(a, m, n)  t == SubSeq(b, m, n)
<1>4. \A i \in 1..Len(s) : i \in 1..(n - m + 1)
  BY <1>1
<1>5. /\ s \in Seq(S) /\ t \in Seq(S) /\ Len(s) = Len(t)
      /\ \A i \in 1..Len(s) : s[i] = t[i]
  BY <1>1, <1>2, <1>3, <1>4
<1>. HIDE DEF s, t
<1>6. s = t
  BY <1>5, SeqEqual
<1>. QED
  BY <1>6 DEF s, t

LEMMA CutReads ==
    ASSUME TokTypes, NoNul, NEW s \in ExpectedStarts, NEW t, IsCut(s, t)
    PROVE  /\ t.length = strlen(t.start)
           /\ SubSeq(buf, t.start, t.start + strlen(t.start) - 1) = ExpectedText(s)
<1>1. Length \in Nat /\ s \in 1..(Length + 1)
  BY ReceivedIs, StartsAre DEF TokTypes
<1>2. /\ t = TokenOf(s) /\ t \in [start : Nat, length : Nat]
      /\ TokenEnd(s) \in s..(Length + 1)
      /\ t.start \in s..TokenEnd(s) /\ t.start + t.length = TokenEnd(s)
  BY <1>1, TokenEndIs DEF IsCut
<1>3. PICK d \in s..(Length + 1) : d = TokenEnd(s)
  BY <1>2
<1>4. PICK b \in s..d : b = t.start
  BY <1>2, <1>3
<1>5. buf[d] = NUL /\ \A q \in s..(d - 1) : buf[q] = body[q] /\ buf[q] # NUL
  <2>1. \A q \in s..(d - 1) : q \in 1..Length
    BY <1>1
  <2>. QED
    BY <1>3, <2>1 DEF IsCut, NoNul
<1>. DEFINE S == {q \in b..Len(buf) : buf[q] = NUL}
<1>6. S \in SUBSET Nat /\ d \in S /\ \A q \in S : d <= q
  <2>1. S \in SUBSET Nat /\ d \in S
    BY <1>1, <1>4, <1>5 DEF TokTypes
  <2>2. \A q \in S : ~(q \in s..(d - 1)) /\ q >= s
    BY <1>1, <1>4, <1>5
  <2>. HIDE DEF S
  <2>. QED
    BY <1>1, <2>1, <2>2
<1>7. Least(S) = d
  <2>. HIDE DEF S
  <2>. QED
    BY <1>6, LeastIsIt
<1>8. strlen(b) = d - b
  <2>1. strlen(b) = Least(S) - b
    BY DEF strlen
  <2>. HIDE DEF S
  <2>2. PICK l \in Nat : l = Least(S)
    BY <1>1, <1>7
  <2>. QED
    BY <1>1, <1>7, <2>1, <2>2
<1>9. t.length = d - b
  BY <1>1, <1>2, <1>3, <1>4
<1>10. b + strlen(b) - 1 = d - 1
  BY <1>1, <1>4, <1>8
<1>11. ExpectedText(s) = SubSeq(body, b, d - 1)
  <2>1. CASE IsColon(s)
    <3>1. d = Length + 1 /\ b = s + 1
      BY <1>2, <1>3, <1>4, <2>1 DEF TokenEnd, TokenOf
    <3>2. d - 1 = Length
      BY <1>1, <3>1
    <3>. QED
      BY <2>1, <3>1, <3>2 DEF ExpectedText
  <2>2. CASE ~IsColon(s)
    <3>1. d = EndOfWord(s) /\ b = s
      BY <1>2, <1>3, <1>4, <2>2 DEF TokenEnd, TokenOf
    <3>. QED
      BY <2>2, <3>1 DEF ExpectedText, EndOfWord
  <2>. QED
    BY <2>1, <2>2
<1>12. SubSeq(buf, b, d - 1) = SubSeq(body, b, d - 1)
  <2>1. body \in Seq(Chars \cup {CR, LF}) /\ buf \in Seq(Chars \cup {CR, LF})
    BY DEF TokTypes
  <2>2. \A q \in b..(d - 1) : buf[q] = body[q] /\ body[q] \in Chars \cup {CR, LF}
    BY <1>1, <1>4, <1>5, ReceivedIs DEF TokTypes
  <2>3. b \in Nat /\ d - 1 \in Nat
    BY <1>1
  <2>. QED
    BY <2>1, <2>2, <2>3, TextIs
<1>. QED
  BY <1>4, <1>8, <1>9, <1>10, <1>11, <1>12

\* TokensAsReference holds of lines of any length: a later call never touches
\* the text an earlier one returned, and the tokens are those of the line.
THEOREM TokensSafe == TokSpec => []TokensAsReference
<1>1. TokInv => TokensAsReference
  <2>. SUFFICES ASSUME TokInv, NEW i \in 1..Len(tokens)
                PROVE  /\ i <= Cardinality(ExpectedStarts)
                       /\ SubSeq(buf, tokens[i].start,
                                 tokens[i].start + strlen(tokens[i].start) - 1)
                             = ExpectedText(Nth(i))
                       /\ tokens[i].length = strlen(tokens[i].start)
    BY DEF TokensAsReference
  <2>1. TokTypes /\ Length \in Nat
    BY ReceivedIs DEF TokInv, TokTypes
  <2>2. PICK s \in ExpectedStarts : Rank(s) = i /\ IsCut(s, tokens[i])
    BY DEF TokInv, TokensAreCut
  <2>3. NoNul
    BY <2>2 DEF ExpectedStarts, NoNul
  <2>4. i <= Cardinality(ExpectedStarts)
    BY <2>1, <2>2, RankIs
  <2>5. Nth(i) = s
    BY <2>1, <2>2, NthIs
  <2>. QED
    BY <2>1, <2>2, <2>3, <2>4, <2>5, CutReads
<1>. QED
  BY <1>1, TokInvariant, PTL

\* EndsComplete holds of lines of any length: NULL means that there is no more.
THEOREM EndsSafe == TokSpec => []EndsComplete
<1>1. TokInv => EndsComplete
  BY DEF TokInv, EndsComplete
<1>. QED
  BY <1>1, TokInvariant, PTL
=============================================================================
