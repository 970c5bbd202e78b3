----------------------------- MODULE MCSession -----------------------------
(* Small instances of Session for TLC. *)
EXTENDS Session

OneFd == {5}

\* A word too long for a nickname, one that fits, and the empty string.
TextValues == {"#channel-1", "bob", ""}
Short == {"bob", ""}
Same == [t \in TextValues |-> t]
Lists == [t \in TextValues |-> {t} \ {""}]
Channels == {"#channel-1"}
TopicValues == TextValues \ {""}
=============================================================================
