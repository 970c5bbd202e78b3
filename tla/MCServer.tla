------------------------------ MODULE MCServer ------------------------------
(* Small instances of Server for TLC. *)
EXTENDS Server

FdRange == 5..6

\* One descriptor, which every connection reuses.
OneFd == {5}

\* A name in two spellings.
CaseNames == {"#c", "#C"}
CaseLower == [n \in CaseNames |-> "#c"]
CaseStored == [n \in CaseNames |-> n]

\* One channel.
OneName == {"#c"}
OneLower == [n \in OneName |-> n]

\* A name longer than fifty characters and the name it is cut to.
LongNames == {"#long", "#longer"}
LongLower == [n \in LongNames |-> n]
LongStored == [n \in LongNames |-> "#long"]
=============================================================================
