--------------------------- MODULE LeasedResource ---------------------------
(***************************************************************************)
(* What a lease on a row promises, whatever the row is for (a cron         *)
(* automation, a webhook automation): at most one holder, who keeps the    *)
(* resource until he gives it up or his lease has run out.                 *)
(***************************************************************************)
CONSTANTS
    Resources,
    Holders,
    Nobody      \* no holder

VARIABLE lease      \* who holds each resource, and whether the lease has run out

Unheld == [holder |-> Nobody, expired |-> FALSE]

Init == lease = [r \in Resources |-> Unheld]

\* A resource is taken when it is free or its lease has run out.
Take(r, h) ==
    /\ lease[r].holder = Nobody \/ lease[r].expired
    /\ lease' = [lease EXCEPT ![r] = [holder |-> h, expired |-> FALSE]]

Renew(r) ==
    /\ lease[r].holder # Nobody
    /\ lease' = [lease EXCEPT ![r].expired = FALSE]

Expire(r) ==
    /\ lease[r].holder # Nobody
    /\ lease' = [lease EXCEPT ![r].expired = TRUE]

GiveUp(r) == lease' = [lease EXCEPT ![r] = Unheld]

Next ==
    \E r \in Resources :
        \/ \E h \in Holders : Take(r, h)
        \/ Renew(r) \/ Expire(r) \/ GiveUp(r)

Spec == Init /\ [][Next]_lease
=============================================================================
