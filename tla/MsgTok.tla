------------------------------- MODULE MsgTok -------------------------------
(***************************************************************************)
(* The tokenizer msgtok_r (and msgtok, the same with a static pointer): it *)
(* cuts a line in place, writing NULs into it, and is called until it      *)
(* returns NULL.  A step is one call.  Positions are indices into `buf`,   *)
(* 0 is the NULL pointer.                                                  *)
(***************************************************************************)
EXTENDS Integers, Sequences, FiniteSets

CONSTANTS
    Space, Colon, CR, LF, NUL,
    Others,        \* the characters that mean nothing to the tokenizer
    MaxLength      \* bound on the characters before CRLF

ASSUME CharsAssumption ==
    /\ Space \notin {Colon, CR, LF, NUL} /\ Colon \notin {CR, LF, NUL}
    /\ CR \notin {LF, NUL} /\ LF # NUL
    /\ Others \cap {Space, Colon, CR, LF, NUL} = {}
ASSUME MaxLengthAssumption == MaxLength \in Nat

\* What comes before the first CRLF, CRLF, and the terminator of conn_s.message.
Bodies == UNION {[1..n -> Others \cup {Space, Colon, NUL}] : n \in 0..MaxLength}

VARIABLES
    body,      \* the line as it was received
    buf,       \* the line as it has been cut so far
    saveptr,   \* where the next call starts, NULL after the last token
    tokens,    \* the tokens returned: where they start and their length
    called,    \* the first call, which is given the line, has been made
    ended      \* a call has returned NULL

tokVars == <<body, buf, saveptr, tokens, called, ended>>

-----------------------------------------------------------------------------
Least(S) == CHOOSE p \in S : \A q \in S : p <= q

\* `while (*p == ' ') p++`.
SkipSpaces(p) == Least({q \in p..Len(buf) : buf[q] # Space})

\* strlen(buf + p).
strlen(p) == Least({q \in p..Len(buf) : buf[q] = NUL}) - p

\* Where strstr(str, "\r\n") finds it: not beyond a NUL.
CrlfFrom(str) ==
    {p \in str..(str + strlen(str) - 1) : buf[p] = CR /\ buf[p + 1] = LF}

Cut(i) == [buf EXCEPT ![i] = NUL]

\* Faulty variant: the next call starts on the character just cut.
ResumeAtCut(i) == i
ResumeAfter(i) == SkipSpaces(i + 1)

\* Faulty variant: a colon counts as any other character.
NeverTrailing(str) == FALSE
\* The last parameter: everything up to CRLF.
IsTrailing(str) == buf[str] = Colon

Return(start, length) == tokens' = Append(tokens, [start |-> start, length |-> length])

\* The body of both functions from `strstr` on.
TokenAt(str) ==
    LET end == Least(CrlfFrom(str))
        spaces == {p \in str..(end - 1) : buf[p] = Space}
    IN
    \/ /\ CrlfFrom(str) = {}
       /\ ended' = TRUE
       /\ UNCHANGED <<buf, saveptr, tokens>>
    \/ /\ CrlfFrom(str) # {} /\ IsTrailing(str)
       /\ Return(str + 1, end - (str + 1))
       /\ buf' = Cut(end)
       /\ saveptr' = 0
       /\ UNCHANGED ended
    \/ /\ CrlfFrom(str) # {} /\ ~IsTrailing(str) /\ spaces # {}
       /\ Return(str, Least(spaces) - str)
       /\ buf' = Cut(Least(spaces))
       /\ saveptr' = ResumeAfter(Least(spaces))
       /\ UNCHANGED ended
    \/ /\ CrlfFrom(str) # {} /\ ~IsTrailing(str) /\ spaces = {}
       /\ Return(str, end - str)
       /\ buf' = Cut(end)
       /\ saveptr' = 0
       /\ UNCHANGED ended

msgtok_first ==
    /\ ~called
    /\ called' = TRUE
    /\ TokenAt(SkipSpaces(1))
    /\ UNCHANGED body

msgtok_next ==
    /\ called /\ ~ended
    /\ \/ /\ saveptr = 0
          /\ ended' = TRUE
          /\ UNCHANGED <<buf, saveptr, tokens>>
       \/ saveptr # 0 /\ TokenAt(saveptr)
    /\ UNCHANGED <<body, called>>

-----------------------------------------------------------------------------
TokInit ==
    /\ body \in Bodies
    /\ buf = body \o <<CR, LF, NUL>>
    /\ saveptr = 0
    /\ tokens = <<>>
    /\ called = FALSE
    /\ ended = FALSE

TokNext == msgtok_first \/ msgtok_next

TokSpec == TokInit /\ [][TokNext]_tokVars

-----------------------------------------------------------------------------
(* The reference: the tokens of a line, by where they start.               *)

Length == Len(body)

\* A token starts at the line's start or after a space, never on a space; one
\* may start, and be empty, at the end.
Starts ==
    {p \in 1..(Length + 1) :
        /\ p = 1 \/ body[p - 1] = Space
        /\ p = Length + 1 \/ body[p] # Space}

IsColon(p) == p <= Length /\ body[p] = Colon

\* Nothing starts after a token that a colon begins; a line with a NUL in it
\* has no tokens.
ExpectedStarts ==
    IF \E p \in 1..Length : body[p] = NUL THEN {}
    ELSE {p \in Starts : \A q \in Starts : IsColon(q) => p <= q}

ExpectedText(p) ==
    IF IsColon(p) THEN SubSeq(body, p + 1, Length)
    ELSE SubSeq(body, p,
                Least({q \in p..(Length + 1) : q = Length + 1 \/ body[q] = Space}) - 1)

\* The i-th start.
Nth(i) == CHOOSE p \in ExpectedStarts : Cardinality({q \in ExpectedStarts : q <= p}) = i

-----------------------------------------------------------------------------
(* Properties.                                                             *)

\* What a caller reads through the pointers it was given, now and after any
\* further calls, are the tokens of the line in order: cutting the later ones
\* does not touch the earlier ones.  toklen, which the parser tests for 0 and
\* against the nickname's limit, is the length of that text, at its end too.
TokensAsReference ==
    \A i \in 1..Len(tokens) :
        LET t == tokens[i] IN
        /\ i <= Cardinality(ExpectedStarts)
        /\ SubSeq(buf, t.start, t.start + strlen(t.start) - 1) = ExpectedText(Nth(i))
        /\ t.length = strlen(t.start)

\* A caller that goes on until it is given NULL has been given every token.
EndsComplete == ended => Len(tokens) = Cardinality(ExpectedStarts)
=============================================================================
