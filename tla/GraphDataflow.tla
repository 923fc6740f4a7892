--------------------------- MODULE GraphDataflow ---------------------------
(***************************************************************************)
(* What the run of an automation graph promises, without queues or         *)
(* counters: a node waits until every node before it is settled, runs if   *)
(* one of them delivered to it and is skipped if none did, never begins    *)
(* twice, and the run succeeds only when every node is settled.            *)
(* AutomationGraph implements it.                                          *)
(***************************************************************************)
EXTENDS FiniteSets

CONSTANTS Nodes, Ports

Edge == [source : Nodes, port : Ports, target : Nodes]

VARIABLES
    edges,      \* edges of the flow
    status,     \* what the trace says of each node
    out,        \* ports on which a node delivered
    verdict     \* what the run row says

vars == <<edges, status, out, verdict>>

Init ==
    /\ edges \in SUBSET Edge
    /\ status = [n \in Nodes |-> "pending"]
    /\ out = [n \in Nodes |-> {}]
    /\ verdict = "none"

Before(n) == {e.source : e \in {f \in edges : f.target = n}}
Settled(n) == status[n] \in {"succeeded", "skipped"}
Delivered(e) == status[e.source] = "succeeded" /\ e.port \in out[e.source]
Wanted(n) == Before(n) = {} \/ \E e \in edges : e.target = n /\ Delivered(e)

\* A node is due when it never ran and the trace before it is complete.
Due(n) ==
    /\ verdict = "running" /\ status[n] = "pending"
    /\ \A m \in Before(n) : Settled(m)
    /\ \A m \in Nodes : status[m] \notin {"running", "failed"}

StartRun == verdict = "none" /\ verdict' = "running" /\ UNCHANGED <<edges, status, out>>

Begin(n) ==
    /\ Due(n) /\ Wanted(n)
    /\ status' = [status EXCEPT ![n] = "running"]
    /\ UNCHANGED <<edges, out, verdict>>

Skip(n) ==
    /\ Due(n) /\ ~Wanted(n)
    /\ status' = [status EXCEPT ![n] = "skipped"]
    /\ UNCHANGED <<edges, out, verdict>>

Succeed(n, ports) ==
    /\ verdict = "running" /\ status[n] = "running"
    /\ status' = [status EXCEPT ![n] = "succeeded"]
    /\ out' = [out EXCEPT ![n] = ports]
    /\ UNCHANGED <<edges, verdict>>

Fail(n) ==
    /\ verdict = "running" /\ status[n] = "running"
    /\ status' = [status EXCEPT ![n] = "failed"]
    /\ UNCHANGED <<edges, out, verdict>>

Complete ==
    /\ verdict = "running" /\ \A n \in Nodes : Settled(n)
    /\ verdict' = "succeeded"
    /\ UNCHANGED <<edges, status, out>>

\* A fallback needs a node that failed; a run may give up at any time.
EndOtherwise ==
    /\ verdict = "running"
    /\ \/ verdict' = "failed"
       \/ /\ verdict' \in {"fallback_succeeded", "fallback_failed"}
          /\ \E n \in Nodes : status[n] = "failed"
    /\ UNCHANGED <<edges, status, out>>

Next ==
    \/ StartRun \/ Complete \/ EndOtherwise
    \/ \E n \in Nodes : Begin(n) \/ Skip(n) \/ Fail(n) \/ \E P \in SUBSET Ports : Succeed(n, P)

Spec == Init /\ [][Next]_vars
=============================================================================
