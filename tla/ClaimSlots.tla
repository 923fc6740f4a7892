----------------------------- MODULE ClaimSlots -----------------------------
(***************************************************************************)
(* What Task Flow promises of its claims, whatever the workers, the sweep  *)
(* and the service do: a task is held by at most one claim, an employee    *)
(* executes at most one claim, a claim that was given up never comes back  *)
(* (every claim has a token of its own) and is never handed over.          *)
(***************************************************************************)
EXTENDS Integers

CONSTANTS Tasks, Employees, Free, MaxClaims

VARIABLES
    holder,     \* by task: Free, or the token and executor of its claim
    issued      \* the last token given out

slotVars == <<holder, issued>>

Init == holder = [t \in Tasks |-> Free] /\ issued = 0

Acquire(t, e) ==
    /\ holder[t] = Free /\ issued < MaxClaims
    /\ \A u \in Tasks : holder[u] # Free => holder[u].executor # e
    /\ issued' = issued + 1
    /\ holder' = [holder EXCEPT ![t] = [token |-> issued + 1, executor |-> e]]

\* One transaction may end several claims: the sweep, a deleted prerequisite.
Release(S) ==
    /\ \A t \in S : holder[t] # Free
    /\ holder' = [t \in Tasks |-> IF t \in S THEN Free ELSE holder[t]]
    /\ UNCHANGED issued

Next ==
    \/ \E t \in Tasks, e \in Employees : Acquire(t, e)
    \/ \E S \in SUBSET Tasks : Release(S)

Spec == Init /\ [][Next]_slotVars
=============================================================================
