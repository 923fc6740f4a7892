-------------------------- MODULE AutomationGraph --------------------------
(***************************************************************************)
(* The run of an automation graph: apply_graph accepts an acyclic flow,    *)
(* execute_triggered_automation writes the run and its node rows, the      *)
(* executor takes the nodes from a queue and resolves the edges behind     *)
(* each, and a run whose node failed ends as its fallback mode says.       *)
(*                                                                         *)
(* Abstractions.  A payload is the fact that it was delivered, so target   *)
(* ports, schemas and final outputs are left out.  Orders the author of a  *)
(* flow chooses (of nodes, of the edges of a node) are any order.  A node  *)
(* acts at most once, somewhere while its adapter runs, and an adapter     *)
(* says of a node that acted what its source says; a code node that acts   *)
(* is declared unsafe by its author.                                       *)
(***************************************************************************)
EXTENDS Naturals, Sequences, FiniteSets, SequencesExt

CONSTANTS
    Nodes,      \* nodes of the flow
    Ports,      \* source ports of its edges
    Default,    \* the port "default"
    Flows,      \* flows an author writes: [edges, kind]
    Modes       \* values of automation.graph_fallback_mode in use

Kinds == {"builtin", "code", "ai", "agent", "task", "action"}
Edge == [source : Nodes, port : Ports, target : Nodes]
Flow == [edges : SUBSET Edge, kind : [Nodes -> Kinds]]
FallbackModes == {"fail_closed", "branch_error_only", "resume_with_ai", "resume_with_ai_if_safe"}

ASSUME GraphAssumption ==
    /\ IsFiniteSet(Nodes) /\ Nodes # {} /\ Default \in Ports
    /\ Flows \subseteq Flow /\ (\A f \in Flows : IsFiniteSet(f.edges))
    /\ Modes \subseteq FallbackModes

VARIABLES
    flow,       \* the active flow
    mode,       \* automation.graph_fallback_mode
    run,        \* status of the row in automation_run, "none" before it exists
    fallback,   \* its fallback_status
    rows,       \* automation_node_run: status, execution_index, error_code
    place,      \* where execute_triggered_automation is
    state,      \* PendingNodeState of each node
    out,        \* outputs_by_node_id: the ports that carry a payload
    ready,      \* the deque of nodes
    frames,     \* edges still to resolve, innermost call of _resolve_edge last
    counter,    \* execution_counter
    unsafe,     \* unsafe_side_effects
    acted,      \* world: nodes that changed something outside of the run
    resumed     \* world: the prompt fallback was given to the agent

vars == <<flow, mode, run, fallback, rows, place, state, out, ready, frames,
          counter, unsafe, acted, resumed>>
memory == <<state, out, ready, frames, counter, unsafe>>
given == <<flow, mode>>

NodeRow == [status : {"pending", "running", "succeeded", "failed", "skipped"},
            index : Nat, error : {"none", "reported", "raised"}]

Incoming(n) == {e \in flow.edges : e.target = n}
Outgoing(n) == {e \in flow.edges : e.source = n}
Entries == {n \in Nodes : Incoming(n) = {}}
Running == {n \in Nodes : rows[n].status = "running"}

-----------------------------------------------------------------------------
(* Validation: nodes leave the graph once every node before them has left. *)

Peeled(edges) ==
    LET peel[i \in Nat] ==
          IF i = 0 THEN {}
          ELSE {n \in Nodes : \A e \in edges : e.target = n => e.source \in peel[i - 1]}
    IN  peel[Cardinality(Nodes)]

ValidateEdges(edges) == Peeled(edges) = Nodes

-----------------------------------------------------------------------------
(* What an adapter may return, given whether its node acted. *)

MayAct(kind) == kind # "builtin"

\* A read-only tool is an action that never acts.
Reports(kind, didAct, report) ==
    /\ kind = "builtin" => ~report
    /\ kind = "action" => (didAct => report)
    /\ kind \notin {"builtin", "action"} => (report <=> didAct)

OutputPorts(kind) ==
    CASE kind = "code" -> SUBSET Ports
      [] kind = "builtin" -> {{p} : p \in Ports}
      [] OTHER -> {{Default}}

\* An ai turn, a subagent and a created task only succeed by acting.
MaySucceed(kind, didAct) == kind \in {"ai", "agent", "task"} => didAct

\* A turn that ends badly raises; a task that was not created did nothing.
MayReportFailure(kind, didAct) == kind \in {"ai", "task"} => ~didAct

RaisedUnsafe(kind) == kind \in {"ai", "action", "task"}

-----------------------------------------------------------------------------
Init ==
    /\ flow \in {f \in Flows : ValidateEdges(f.edges)}
    /\ mode \in Modes
    /\ run = "none" /\ fallback = "none"
    /\ rows = [n \in Nodes |-> [status |-> "pending", index |-> 0, error |-> "none"]]
    /\ place = "triggered"
    /\ state = [n \in Nodes |-> [resolved |-> 0, delivered |-> 0,
                                 enqueued |-> FALSE, finalized |-> FALSE]]
    /\ out = [n \in Nodes |-> {}]
    /\ ready = <<>> /\ frames = <<>>
    /\ counter = 0 /\ unsafe = FALSE
    /\ acted = {} /\ resumed = FALSE

\* The deque starts with the nodes without incoming edges, in flow order.
Bootstrap ==
    /\ place = "triggered" /\ place' = "looping"
    /\ run' = "running"
    /\ ready' \in {q \in [1..Cardinality(Entries) -> Entries] :
                     \A i, j \in DOMAIN q : q[i] = q[j] => i = j}
    /\ state' = [n \in Nodes |-> [state[n] EXCEPT !.enqueued = n \in Entries]]
    /\ UNCHANGED <<given, fallback, rows, out, frames, counter, unsafe, acted, resumed>>

TakeNode ==
    /\ place = "looping" /\ frames = <<>> /\ ready # <<>>
    /\ LET n == Head(ready) IN
         /\ ready' = Tail(ready)
         /\ state' = [state EXCEPT ![n].enqueued = FALSE]
         /\ IF state[n].finalized
            THEN UNCHANGED <<rows, counter, place>>
            ELSE /\ counter' = counter + 1
                 /\ rows' = [rows EXCEPT ![n] = [@ EXCEPT !.status = "running", !.index = counter + 1]]
                 /\ place' = "executing"
    /\ UNCHANGED <<given, run, fallback, out, frames, unsafe, acted, resumed>>

Act(n) ==
    /\ place = "executing" /\ n \in Running \ acted /\ MayAct(flow.kind[n])
    /\ acted' = acted \cup {n}
    /\ UNCHANGED <<given, run, fallback, rows, place, memory, resumed>>

\* Broken: the flag tells of the last node only.
UnsafeNow(report) == report

UnsafeSoFar(report) == unsafe \/ report

Unresolved(edges) == IF edges = {} THEN <<>> ELSE <<edges>>

NodeSucceeds(n) ==
    /\ place = "executing" /\ n \in Running
    /\ MaySucceed(flow.kind[n], n \in acted)
    /\ \E ports \in OutputPorts(flow.kind[n]) : out' = [out EXCEPT ![n] = ports]
    /\ \E report \in BOOLEAN : Reports(flow.kind[n], n \in acted, report) /\ unsafe' = UnsafeSoFar(report)
    /\ rows' = [rows EXCEPT ![n].status = "succeeded"]
    /\ state' = [state EXCEPT ![n].finalized = TRUE]
    /\ frames' = Unresolved(Outgoing(n))
    /\ place' = "looping"
    /\ UNCHANGED <<given, run, fallback, ready, counter, acted, resumed>>

\* execute returns at once: nodes that are still pending stay so.
Failure(n, error, report) ==
    /\ unsafe' = UnsafeSoFar(report)
    /\ rows' = [rows EXCEPT ![n].status = "failed", ![n].error = error]
    /\ place' = "failed"
    /\ UNCHANGED <<given, run, fallback, state, out, ready, frames, counter, acted, resumed>>

\* A result that is not ok, or a payload that does not fit its schema.
NodeFails(n) ==
    /\ place = "executing" /\ n \in Running
    /\ MayReportFailure(flow.kind[n], n \in acted)
    /\ \E report \in BOOLEAN :
          Reports(flow.kind[n], n \in acted, report) /\ Failure(n, "reported", report)

\* The adapter raises, or the worker process of a code node is killed or dies.
NodeRaises(n) ==
    /\ place = "executing" /\ n \in Running
    /\ Failure(n, "raised", RaisedUnsafe(flow.kind[n]))

-----------------------------------------------------------------------------
(* _resolve_edge: the last call on the stack takes its next edge. *)

TopEdges == IF frames = <<>> THEN {} ELSE Last(frames)
Rest(e) == Front(frames) \o Unresolved(TopEdges \ {e})
DeliveredOver(e) == state[e.target].delivered + (IF e.port \in out[e.source] THEN 1 ELSE 0)

\* Broken: a node is ready as soon as one edge delivered to it.
FirstArrival(e) == DeliveredOver(e) > 0

AllResolved(e) == state[e.target].resolved + 1 = Cardinality(Incoming(e.target))

Resolve(e, enqueued, finalized) ==
    state' = [state EXCEPT ![e.target] =
                [resolved |-> @.resolved + 1, delivered |-> DeliveredOver(e),
                 enqueued |-> enqueued, finalized |-> finalized]]

EdgeResolved(e) ==
    /\ place = "looping" /\ e \in TopEdges /\ ~AllResolved(e)
    /\ Resolve(e, state[e.target].enqueued, state[e.target].finalized)
    /\ frames' = Rest(e)
    /\ UNCHANGED <<given, run, fallback, rows, place, out, ready, counter, unsafe, acted, resumed>>

TargetReady(e) ==
    /\ place = "looping" /\ e \in TopEdges /\ AllResolved(e) /\ DeliveredOver(e) > 0
    /\ LET new == ~state[e.target].enqueued /\ ~state[e.target].finalized IN
         /\ ready' = IF new THEN Append(ready, e.target) ELSE ready
         /\ Resolve(e, new \/ state[e.target].enqueued, state[e.target].finalized)
    /\ frames' = Rest(e)
    /\ UNCHANGED <<given, run, fallback, rows, place, out, counter, unsafe, acted, resumed>>

\* Nothing was delivered: the node is skipped and its own edges are resolved.
TargetSkipped(e) ==
    /\ place = "looping" /\ e \in TopEdges /\ AllResolved(e) /\ DeliveredOver(e) = 0
    /\ Resolve(e, state[e.target].enqueued, TRUE)
    /\ IF state[e.target].finalized
       THEN frames' = Rest(e) /\ UNCHANGED <<rows, counter>>
       ELSE /\ counter' = counter + 1
            /\ rows' = [rows EXCEPT ![e.target] = [@ EXCEPT !.status = "skipped", !.index = counter + 1]]
            /\ frames' = Rest(e) \o Unresolved(Outgoing(e.target))
    /\ UNCHANGED <<given, run, fallback, place, out, ready, unsafe, acted, resumed>>

-----------------------------------------------------------------------------
(* The verdict, written to the row of the run in a transaction of its own. *)

\* Broken: a legacy value is passed on.
FallbackModeAsStored == mode

FallbackMode == IF mode = "branch_error_only" THEN "fail_closed" ELSE mode

Verdict(status, note) ==
    /\ run' = status /\ fallback' = note /\ place' = "ended"
    /\ UNCHANGED <<given, rows, memory, acted>>

Complete ==
    /\ place = "looping" /\ frames = <<>> /\ ready = <<>>
    /\ Verdict("succeeded", "none") /\ UNCHANGED resumed

FailClosed ==
    /\ place = "failed" /\ FallbackMode = "fail_closed"
    /\ Verdict("failed", "not_attempted") /\ UNCHANGED resumed

SkipUnsafe ==
    /\ place = "failed" /\ FallbackMode = "resume_with_ai_if_safe" /\ unsafe
    /\ Verdict("failed", "skipped_unsafe") /\ UNCHANGED resumed

ResumeWithAi ==
    /\ place = "failed"
    /\ \/ FallbackMode = "resume_with_ai"
       \/ FallbackMode = "resume_with_ai_if_safe" /\ ~unsafe
    /\ place' = "resuming" /\ resumed' = TRUE
    /\ UNCHANGED <<given, run, fallback, rows, memory, acted>>

FallbackReturns ==
    /\ place = "resuming"
    /\ Verdict("fallback_succeeded", "succeeded") /\ UNCHANGED resumed

FallbackRaises ==
    /\ place = "resuming"
    /\ Verdict("fallback_failed", "failed") /\ UNCHANGED resumed

\* A transaction of the executor fails: the exception leaves execute().
ExecutorRaises ==
    /\ place \in {"looping", "executing"}
    /\ Verdict("failed", "not_attempted") /\ UNCHANGED resumed

\* The lease of the automation is lost, the daemon stops or dies, or the
\* verdict cannot be written: nobody comes back to the run.
Abandoned ==
    /\ place \in {"looping", "executing", "failed", "resuming"}
    /\ place' = "abandoned"
    /\ UNCHANGED <<given, run, fallback, rows, memory, acted, resumed>>

NodeStep(n) == NodeSucceeds(n) \/ NodeFails(n) \/ NodeRaises(n)
EdgeStep(e) == EdgeResolved(e) \/ TargetReady(e) \/ TargetSkipped(e)
VerdictStep == Complete \/ FailClosed \/ SkipUnsafe \/ ResumeWithAi \/ FallbackReturns \/ FallbackRaises

Next ==
    \/ Bootstrap \/ TakeNode \/ VerdictStep \/ ExecutorRaises \/ Abandoned
    \/ \E n \in Nodes : Act(n) \/ NodeStep(n)
    \/ \E e \in TopEdges : EdgeStep(e)

Spec == Init /\ [][Next]_vars

\* An executor that was not abandoned goes on: its adapters have time limits
\* of their own, and the automation that runs it has one.
FairSpec == Spec /\ WF_vars(Bootstrap) /\ WF_vars(TakeNode) /\ WF_vars(VerdictStep)
                 /\ WF_vars(\E n \in Nodes : NodeStep(n)) /\ WF_vars(\E e \in TopEdges : EdgeStep(e))

-----------------------------------------------------------------------------
PendingState == [resolved : Nat, delivered : Nat, enqueued : BOOLEAN, finalized : BOOLEAN]

\* Type correctness.
TypeOK ==
    /\ flow \in Flows /\ mode \in Modes
    /\ run \in {"none", "running", "succeeded", "failed", "fallback_succeeded", "fallback_failed"}
    /\ fallback \in {"none", "not_attempted", "skipped_unsafe", "succeeded", "failed"}
    /\ place \in {"triggered", "looping", "executing", "failed", "resuming", "ended", "abandoned"}
    /\ rows \in [Nodes -> NodeRow] /\ state \in [Nodes -> PendingState]
    /\ out \in [Nodes -> SUBSET Ports]
    /\ ready \in Seq(Nodes) /\ frames \in Seq(SUBSET flow.edges)
    /\ counter \in Nat /\ unsafe \in BOOLEAN
    /\ acted \subseteq Nodes /\ resumed \in BOOLEAN

\* An agent node that raises, and a code node whose worker is killed, are
\* reported as safe, whatever they did before.
Unreported(n) == rows[n].error = "raised" /\ flow.kind[n] \in {"agent", "code"}

\* resume_with_ai_if_safe: the agent is asked to finish a run only if no node
\* of it acted, but for the node that failed when its adapter cannot know
\* (the flag that execute() carries from node to node and the one of a
\* failing node, _run_prompt_fallback and the branch before it).
FallbackOnlyIfSafe ==
    (resumed /\ mode = "resume_with_ai_if_safe") => \A n \in acted : Unreported(n)

\* The deque, the counters of PendingNodeState and the recursion of
\* _resolve_edge run the nodes as the dataflow of the flow asks for: none
\* twice, none before its inputs are known, none forgotten by a run that
\* succeeds, and none at all after a failure.
Dataflow == INSTANCE GraphDataflow
              WITH edges <- flow.edges, status <- [n \in Nodes |-> rows[n].status],
                   out <- out, verdict <- run
RunsTheDataflow == Dataflow!Spec

\* A run that nobody abandons gets a verdict, whichever node fails and
\* whatever its fallback mode (execute_triggered_automation).
RunGetsVerdict == run = "running" ~> (run # "running" \/ place = "abandoned")
=============================================================================
