----------------------------- MODULE Directory -----------------------------
(***************************************************************************)
(* What the registry of a cIRC server promises its users, without          *)
(* sockets, flags, counters and messages: who is known, and who holds      *)
(* which nickname.  Module Clients implements it.                          *)
(***************************************************************************)
EXTENDS Integers

CONSTANTS Ids, Nicks

VARIABLES
    phase,     \* per id: "absent", "guest", "member" (welcomed) or "gone"
    holder     \* per nickname: the id that holds it, or 0

vars == <<phase, holder>>

Present(c) == phase[c] \in {"guest", "member"}
Holds(c) == \E n \in Nicks : holder[n] = c

Arrive(c) ==
    /\ phase[c] = "absent"
    /\ phase' = [phase EXCEPT ![c] = "guest"]
    /\ UNCHANGED holder

\* Whoever is present may take a nickname nobody holds, giving up its own.
Claim(c, n) ==
    /\ Present(c)
    /\ holder[n] = 0
    /\ holder' = [m \in Nicks |-> IF m = n THEN c
                                  ELSE IF holder[m] = c THEN 0
                                  ELSE holder[m]]
    /\ phase' \in {phase, [phase EXCEPT ![c] = "member"]}

\* Only a holder of a nickname is welcomed, and only once.
Welcome(c) ==
    /\ phase[c] = "guest"
    /\ Holds(c)
    /\ phase' = [phase EXCEPT ![c] = "member"]
    /\ UNCHANGED holder

\* Who leaves never comes back under the same id; its nickname stays taken.
Depart(c) ==
    /\ Present(c)
    /\ phase' = [phase EXCEPT ![c] = "gone"]
    /\ UNCHANGED holder

Init ==
    /\ phase = [c \in Ids |-> "absent"]
    /\ holder = [n \in Nicks |-> 0]

Next ==
    \E c \in Ids :
        \/ Arrive(c) \/ Welcome(c) \/ Depart(c)
        \/ \E n \in Nicks : Claim(c, n)

Spec == Init /\ [][Next]_vars
=============================================================================
