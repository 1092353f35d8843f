---------------------------- MODULE TokenRegistry ----------------------------
(***************************************************************************)
(* The life of the internal tokens of one user, as the LLM proxy and the   *)
(* containers see it: at most one token is good at a time, a new one is    *)
(* good only from the moment it is issued, it is given to one container at *)
(* most, and once neither a handler nor a container has it, it is of no    *)
(* use to anyone.                                                          *)
(***************************************************************************)
EXTENDS Naturals

CONSTANT NoToken

VARIABLES
    live,     \* the token the proxy accepts, or NoToken
    issued,   \* how many tokens were issued; they are numbered in that order
    place     \* where the good token is: "none" if there is none, "pending"
              \* with the handler it was issued to, "held" by a container,
              \* "spent" if nobody has it

Init == live = NoToken /\ issued = 0 /\ place = "none"

\* A new token replaces the one before, whoever held that.
Issue ==
    /\ issued' = issued + 1
    /\ live' = issued + 1
    /\ place' \in {"pending", "spent"}

\* Issued for an instance that is gone by then: never good.
IssueInVain == issued' = issued + 1 /\ UNCHANGED <<live, place>>

\* The handler gives the token to the container it creates.
Hand == place = "pending" /\ place' = "held" /\ UNCHANGED <<live, issued>>

\* The handler ends without one, or the container is removed.
Lose == place \in {"pending", "held"} /\ place' = "spent" /\ UNCHANGED <<live, issued>>

\* A revocation, or the end of the instance.
Revoke ==
    /\ live # NoToken
    /\ live' = NoToken /\ place' = "none"
    /\ UNCHANGED issued

Next == Issue \/ IssueInVain \/ Hand \/ Lose \/ Revoke

Spec == Init /\ [][Next]_<<live, issued, place>>
=============================================================================
