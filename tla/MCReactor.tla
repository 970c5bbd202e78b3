----------------------------- MODULE MCReactor -----------------------------
(* Small instances of Reactor for TLC. *)
EXTENDS Reactor

OneFd == {5}
TwoFds == {5, 6}
=============================================================================
