----------------------------- MODULE MCClients -----------------------------
(* Small instances of Clients for TLC. *)
EXTENDS Clients

FdRange == 5..6
=============================================================================
