----------------------------- MODULE MCReplies -----------------------------
(* Replies for TLC: texts on both sides of the limit, and the shortest and *)
(* the longest nickname.                                                   *)
EXTENDS Replies

SomeTexts == {0, 1, 200, 374, 375, 376, 1000}
SomeWidths == {1, 9}
=============================================================================
