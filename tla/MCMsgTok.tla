----------------------------- MODULE MCMsgTok -----------------------------
(* Small instances of MsgTok for TLC. *)
EXTENDS MsgTok

Letters == {"x"}
=============================================================================
