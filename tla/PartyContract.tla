--------------------------- MODULE PartyContract ---------------------------
(***************************************************************************)
(* What parties promise their users, with every operation one atomic step: *)
(* who founded a party and which entitlement it promises never change; the *)
(* founder enters freely and anyone else only once the founder, who has    *)
(* entered before, has opened the party with an invite; the promised       *)
(* entitlement goes, in the promised duration, only to somebody who has    *)
(* entered.                                                                *)
(* PartyApi, where each operation is several reads and writes of a store   *)
(* that concurrent requests share, is shown to implement this module.      *)
(***************************************************************************)
CONSTANTS
    Users,
    Parties,
    Durations,      \* the entitlement durations a party can promise
    None

VARIABLES
    founder,        \* founder[p]: who created party p, None before that
    promise,        \* promise[p]: the duration p gives its members, or None
    open,           \* the parties their founder has issued an invite to
    roster,         \* pairs <<user, party>>: the current members
    entered,        \* pairs <<user, party>>: everyone who was ever a member
    gifts           \* triples <<user, party, duration>> granted by the app

vars == <<founder, promise, open, roster, entered, gifts>>

Init ==
    /\ founder = [p \in Parties |-> None]
    /\ promise = [p \in Parties |-> None]
    /\ open = {}
    /\ roster = {}
    /\ entered = {}
    /\ gifts = {}

Found(u, p, d) ==
    /\ founder[p] = None
    /\ founder' = [founder EXCEPT ![p] = u]
    /\ promise' = [promise EXCEPT ![p] = d]
    /\ UNCHANGED <<open, roster, entered, gifts>>

Open(p) ==
    /\ <<founder[p], p>> \in entered
    /\ open' = open \cup {p}
    /\ UNCHANGED <<founder, promise, roster, entered, gifts>>

Enter(u, p) ==
    /\ founder[p] # None
    /\ u = founder[p] \/ p \in open
    /\ roster' = roster \cup {<<u, p>>}
    /\ entered' = entered \cup {<<u, p>>}
    /\ UNCHANGED <<founder, promise, open, gifts>>

Leave(u, p) ==
    /\ roster' = roster \ {<<u, p>>}
    /\ UNCHANGED <<founder, promise, open, entered, gifts>>

Grant(u, p) ==
    /\ <<u, p>> \in entered
    /\ promise[p] # None
    /\ gifts' = gifts \cup {<<u, p, promise[p]>>}
    /\ UNCHANGED <<founder, promise, open, roster, entered>>

Next ==
    \/ \E u \in Users, p \in Parties :
        \/ \E d \in Durations \cup {None} : Found(u, p, d)
        \/ Enter(u, p)
        \/ Leave(u, p)
        \/ Grant(u, p)
    \/ \E p \in Parties : Open(p)

Spec == Init /\ [][Next]_vars

=============================================================================
