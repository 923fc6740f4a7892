------------------------ MODULE AutomationGraph_proofs ---------------------
(***************************************************************************)
(* Proofs about AutomationGraph, for every flow: type correctness, that    *)
(* the fallback of resume_with_ai_if_safe follows only a run in which      *)
(* nothing acted (but for a failing node that could not tell), that        *)
(* validation accepts the acyclic flows, and that the executor implements  *)
(* GraphDataflow.                                                          *)
(***************************************************************************)
EXTENDS AutomationGraph, FiniteSetTheorems, SequenceTheorems, WellFoundedInduction, TLAPS

\* Sequences of any set: the empty one, one element, the first part.
LEMMA SmallSequences ==
    ASSUME NEW S, NEW x \in S, NEW s \in Seq(S), s # <<>>
    PROVE  /\ <<>> \in Seq(S) /\ <<x>> \in Seq(S)
           /\ Front(s) \in Seq(S) /\ Last(s) \in S
<1>1. Len(s) \in Nat \ {0}
  BY EmptySeq, LenProperties
<1>2. \A i \in 1..Len(s) - 1 : s[i] \in S
  BY <1>1, ElementOfSeq
<1>3. Front(s) \in Seq(S)
  BY <1>1, <1>2, SubSeqProperties DEF Front
<1>4. Last(s) \in S
  BY <1>1, ElementOfSeq DEF Last
<1> QED
  BY <1>3, <1>4

\* A frame of edges is one element of the stack, or nothing when it is empty.
LEMMA FrameOf ==
    ASSUME NEW S, NEW edges \in SUBSET S
    PROVE  Unresolved(edges) \in Seq(SUBSET S)
<1> DEFINE T == SUBSET S
<1>1. edges \in T
  OBVIOUS
<1> HIDE DEF T
<1>2. <<>> \in Seq(T) /\ <<edges>> \in Seq(T)
  BY <1>1
<1> QED
  BY <1>2 DEF Unresolved, T

\* What TopEdges and Rest are made of stays within the edges of the flow.
LEMMA FrameTypes ==
    ASSUME frames \in Seq(SUBSET flow.edges), NEW e \in TopEdges
    PROVE  /\ frames # <<>> /\ e \in flow.edges
           /\ Rest(e) \in Seq(SUBSET flow.edges)
<1>1. frames # <<>> /\ TopEdges = Last(frames)
  BY DEF TopEdges
<1>2. Last(frames) \in SUBSET flow.edges /\ Front(frames) \in Seq(SUBSET flow.edges)
  <2> DEFINE S == SUBSET flow.edges
  <2>1. frames \in Seq(S) /\ {} \in S
    OBVIOUS
  <2> HIDE DEF S
  <2>2. Last(frames) \in S /\ Front(frames) \in Seq(S)
    BY <1>1, <2>1, SmallSequences
  <2> QED
    BY <2>2 DEF S
<1>3. Unresolved(TopEdges \ {e}) \in Seq(SUBSET flow.edges)
  BY <1>1, <1>2, FrameOf
<1>4. Rest(e) \in Seq(SUBSET flow.edges)
  BY <1>2, <1>3, ConcatProperties DEF Rest
<1> QED
  BY <1>1, <1>2, <1>4

LEMMA OutgoingFrame ==
    ASSUME NEW n \in Nodes
    PROVE  Unresolved(Outgoing(n)) \in Seq(SUBSET flow.edges)
  BY FrameOf DEF Outgoing

LEMMA RowUpdate ==
    ASSUME NEW r \in NodeRow, NEW i \in Nat,
           NEW s \in {"pending", "running", "succeeded", "failed", "skipped"}
    PROVE  [r EXCEPT !.status = s, !.index = i] \in NodeRow
  BY DEF NodeRow

\* Next, one case for each action.
LEMMA TypeInit == Init => TypeOK
<1> SUFFICES ASSUME Init PROVE TypeOK
  OBVIOUS
<1>1. rows \in [Nodes -> NodeRow] /\ state \in [Nodes -> PendingState]
  BY DEF Init, NodeRow, PendingState
<1>2. flow \in Flows /\ mode \in Modes
  BY DEF Init
<1>3. ready \in Seq(Nodes) /\ frames \in Seq(SUBSET flow.edges)
  <2> DEFINE T == SUBSET flow.edges
  <2>1. <<>> \in Seq(T) /\ <<>> \in Seq(Nodes)
    OBVIOUS
  <2> QED
    BY <2>1 DEF Init
<1>4. out \in [Nodes -> SUBSET Ports] /\ acted \subseteq Nodes
  BY DEF Init
<1> QED
  BY <1>1, <1>2, <1>3, <1>4 DEF Init, TypeOK

LEMMA TypeNext == TypeOK /\ [Next]_vars => TypeOK'
<1> SUFFICES ASSUME TypeOK, [Next]_vars PROVE TypeOK'
  OBVIOUS
<1> USE DEF TypeOK
<1>0. flow \in Flow /\ flow.edges \subseteq Edge
  BY GraphAssumption DEF Flow
<1>1. CASE Bootstrap
  <2>1. IsFiniteSet(Entries) /\ Cardinality(Entries) \in Nat
    BY GraphAssumption, FS_Subset, FS_CardinalityType DEF Entries
  <2>2. ready' \in Seq(Entries)
    BY <1>1, <2>1 DEF Bootstrap
  <2>3. ready' \in Seq(Nodes)
    BY <2>2, SeqDef DEF Entries
  <2>4. state' \in [Nodes -> PendingState]
    <3>1. ASSUME NEW n \in Nodes, NEW q \in BOOLEAN
          PROVE  [state[n] EXCEPT !.enqueued = q] \in PendingState
      BY DEF PendingState
    <3>2. \A n \in Nodes : (n \in Entries) \in BOOLEAN
      OBVIOUS
    <3> HIDE DEF TypeOK
    <3> QED
      BY <1>1, <3>1, <3>2 DEF Bootstrap
  <2> QED
    BY <1>1, <2>3, <2>4 DEF Bootstrap, given
<1>2. CASE TakeNode
  <2>1. Head(ready) \in Nodes /\ Tail(ready) \in Seq(Nodes)
    BY <1>2, HeadTailProperties DEF TakeNode
  <2>2. state' \in [Nodes -> PendingState]
    BY <1>2, <2>1 DEF TakeNode, PendingState
  <2>3. rows' \in [Nodes -> NodeRow] /\ counter' \in Nat
    <3>1. [rows[Head(ready)] EXCEPT !.status = "running", !.index = counter + 1] \in NodeRow
      <4>1. rows[Head(ready)] \in NodeRow /\ counter + 1 \in Nat
        BY <2>1
      <4> HIDE DEF TypeOK
      <4> QED
        BY <4>1, RowUpdate
    <3>2. \/ rows' = rows /\ counter' = counter
          \/ /\ counter' = counter + 1
             /\ rows' = [rows EXCEPT ![Head(ready)] =
                           [rows[Head(ready)] EXCEPT !.status = "running", !.index = counter + 1]]
      BY <1>2, <2>1 DEF TakeNode
    <3> QED
      BY <2>1, <3>1, <3>2
  <2> QED
    BY <1>2, <2>1, <2>2, <2>3 DEF TakeNode, given
<1>3. CASE VerdictStep
  BY <1>3 DEF VerdictStep, Complete, FailClosed, SkipUnsafe, ResumeWithAi, FallbackReturns,
              FallbackRaises, Verdict, given, memory
<1>4. CASE ExecutorRaises
  BY <1>4 DEF ExecutorRaises, Verdict, given, memory
<1>5. CASE Abandoned
  BY <1>5 DEF Abandoned, given, memory
<1>6. ASSUME NEW n \in Nodes, Act(n) PROVE TypeOK'
  BY <1>6 DEF Act, given, memory
<1>7. ASSUME NEW n \in Nodes, NodeSucceeds(n) PROVE TypeOK'
  <2>1. rows' \in [Nodes -> NodeRow] /\ state' \in [Nodes -> PendingState]
    <3>1. [rows EXCEPT ![n].status = "succeeded"] \in [Nodes -> NodeRow]
      BY DEF NodeRow
    <3>2. [state EXCEPT ![n].finalized = TRUE] \in [Nodes -> PendingState]
      BY DEF PendingState
    <3> QED
      BY <1>7, <3>1, <3>2 DEF NodeSucceeds
  <2>2. OutputPorts(flow.kind[n]) \subseteq SUBSET Ports
    BY GraphAssumption DEF OutputPorts
  <2>3. unsafe' \in BOOLEAN /\ out' \in [Nodes -> SUBSET Ports]
    BY <1>7, <2>2 DEF NodeSucceeds, UnsafeSoFar
  <2> QED
    BY <1>7, <2>1, <2>3, OutgoingFrame DEF NodeSucceeds, given
<1>8. ASSUME NEW n \in Nodes, NodeFails(n) \/ NodeRaises(n) PROVE TypeOK'
  <2>1. /\ rows' = [rows EXCEPT ![n].status = "failed", ![n].error = "reported"]
           \/ rows' = [rows EXCEPT ![n].status = "failed", ![n].error = "raised"]
        /\ unsafe' \in BOOLEAN /\ place' = "failed"
        /\ UNCHANGED <<given, run, fallback, state, out, ready, frames, counter, acted, resumed>>
    BY <1>8 DEF NodeFails, NodeRaises, Failure, UnsafeSoFar
  <2>2. rows' \in [Nodes -> NodeRow]
    <3>1. ASSUME NEW error \in {"reported", "raised"},
                 rows' = [rows EXCEPT ![n].status = "failed", ![n].error = error]
          PROVE  rows' \in [Nodes -> NodeRow]
      BY <3>1 DEF NodeRow
    <3> QED
      BY <2>1, <3>1
  <2> QED
    BY <2>1, <2>2 DEF given
<1>9. ASSUME NEW e \in TopEdges, EdgeStep(e) PROVE TypeOK'
  <2>1. e \in flow.edges /\ Rest(e) \in Seq(SUBSET flow.edges)
    BY <1>9, FrameTypes
  <2>2. e.target \in Nodes /\ e.source \in Nodes
    BY <1>0, <2>1 DEF Edge
  <2>3. DeliveredOver(e) \in Nat
    BY <2>2 DEF DeliveredOver, PendingState
  <2>4. ASSUME NEW q \in BOOLEAN, NEW f \in BOOLEAN, Resolve(e, q, f)
        PROVE  state' \in [Nodes -> PendingState]
    BY <2>2, <2>3, <2>4 DEF Resolve, PendingState
  <2>5. state[e.target].enqueued \in BOOLEAN /\ state[e.target].finalized \in BOOLEAN
    BY <2>2 DEF PendingState
  <2>6. CASE EdgeResolved(e)
    BY <2>1, <2>4, <2>5, <2>6 DEF EdgeResolved, given
  <2>7. CASE TargetReady(e)
    BY <2>1, <2>2, <2>4, <2>5, <2>7, AppendProperties DEF TargetReady, given
  <2>8. CASE TargetSkipped(e)
    <3>0. [rows[e.target] EXCEPT !.status = "skipped", !.index = counter + 1] \in NodeRow
      <4>1. rows[e.target] \in NodeRow /\ counter + 1 \in Nat
        BY <2>2
      <4> HIDE DEF TypeOK
      <4> QED
        BY <4>1, RowUpdate
    <3>1. rows' \in [Nodes -> NodeRow] /\ counter' \in Nat
      BY <2>2, <2>8, <3>0 DEF TargetSkipped
    <3>2. Rest(e) \o Unresolved(Outgoing(e.target)) \in Seq(SUBSET flow.edges)
      BY <2>1, <2>2, OutgoingFrame, ConcatProperties
    <3> QED
      BY <2>1, <2>4, <2>5, <2>8, <3>1, <3>2 DEF TargetSkipped, given
  <2> QED
    BY <1>9, <2>6, <2>7, <2>8 DEF EdgeStep
<1>10. CASE UNCHANGED vars
  BY <1>10 DEF vars, given, memory
<1> QED
  BY <1>1, <1>2, <1>3, <1>4, <1>5, <1>6, <1>7, <1>8, <1>9, <1>10 DEF Next, NodeStep

\* The types of AutomationGraph hold in every state of every run.
THEOREM TypeCorrect == Spec => []TypeOK
  BY TypeInit, TypeNext, PTL DEF Spec

-----------------------------------------------------------------------------
(* What a node did is known to the flag once its adapter has returned: the *)
(* flag is up, or the node still runs, or it is a node that could not tell.*)

Told == \A n \in acted : unsafe \/ n \in Running \/ Unreported(n)

\* Nothing runs when the fallback is decided, and it is decided by the flag.
Quiet ==
    /\ place \in {"triggered", "looping", "failed", "resuming"} => Running = {}
    /\ place = "executing" => \A m, n \in Running : m = n
    /\ resumed => place \in {"resuming", "ended", "abandoned"} /\ Running = {}
    /\ resumed /\ mode = "resume_with_ai_if_safe" => ~unsafe
    /\ \A n \in acted : MayAct(flow.kind[n])

IInv == TypeOK /\ Told /\ Quiet

LEMMA SafeInit == Init => IInv
<1> SUFFICES ASSUME Init PROVE IInv
  OBVIOUS
<1>1. TypeOK
  BY TypeInit
<1>2. Running = {} /\ acted = {} /\ ~resumed
  BY DEF Init, Running
<1> QED
  BY <1>1, <1>2 DEF IInv, Told, Quiet

\* A step that leaves rows, flag and acts as they are keeps Told.
LEMMA ToldUnchanged ==
    ASSUME Told, UNCHANGED <<flow, rows, unsafe, acted>>
    PROVE  Told' /\ Running' = Running
  BY DEF Told, Running, Unreported

\* The node that returns leaves Running; nothing else was in it.
LEMMA Returned ==
    ASSUME IInv, NEW n \in Nodes, n \in Running, place = "executing",
           NEW s \in {"succeeded", "failed"},
           \A m \in Nodes : rows'[m].status = IF m = n THEN s ELSE rows[m].status
    PROVE  Running' = {} /\ ~resumed
<1>1. ~resumed
  BY DEF IInv, Quiet
<1>2. \A m \in Nodes : rows[m].status = "running" => m = n
  BY DEF IInv, Quiet, Running
<1> QED
  BY <1>1, <1>2 DEF Running

\* The adapter of a node that acted says so when it returns.
LEMMA ActedReported ==
    ASSUME NEW n, n \in acted, MayAct(flow.kind[n]),
           NEW report \in BOOLEAN, Reports(flow.kind[n], n \in acted, report)
    PROVE  report
  BY DEF MayAct, Reports

LEMMA SafeNext == IInv /\ [Next]_vars => IInv'
<1> SUFFICES ASSUME IInv, [Next]_vars PROVE IInv'
  OBVIOUS
<1>0. TypeOK /\ TypeOK' /\ Told /\ Quiet
  BY TypeNext DEF IInv
<1>1. CASE Bootstrap
  <2>1. Told' /\ Running' = Running
    BY <1>0, <1>1, ToldUnchanged DEF Bootstrap, given
  <2> QED
    BY <1>0, <1>1, <2>1 DEF IInv, Quiet, Bootstrap, given
<1>2. CASE TakeNode
  <2>1. Running = {} /\ ~resumed
    BY <1>0, <1>2 DEF Quiet, TakeNode
  <2>2. CASE state[Head(ready)].finalized
    <3>1. Told' /\ Running' = Running
      BY <1>0, <1>2, <2>2, ToldUnchanged DEF TakeNode, given
    <3> QED
      BY <1>0, <1>2, <2>1, <2>2, <3>1 DEF IInv, Quiet, TakeNode, given
  <2>3. CASE ~state[Head(ready)].finalized
    <3> DEFINE h == Head(ready)
    <3>0. h \in Nodes /\ rows[h] \in NodeRow
      BY <1>0, <1>2, HeadTailProperties DEF TakeNode, TypeOK
    <3>1. \A m \in Nodes : m # h => rows'[m] = rows[m]
      BY <1>0, <1>2, <2>3 DEF TakeNode, TypeOK
    <3>2. Running' \subseteq {h}
      BY <2>1, <3>1 DEF Running
    <3>3. rows'[h].status = "running"
      <4>1. rows'[h] = [rows[h] EXCEPT !.status = "running", !.index = counter + 1]
        BY <1>0, <1>2, <2>3, <3>0 DEF TakeNode, TypeOK
      <4> QED
        BY <3>0, <4>1 DEF NodeRow
    <3>4. \A m \in acted : m \in Nodes /\ (unsafe \/ Unreported(m))
      BY <1>0, <2>1 DEF Told, TypeOK
    <3>5. unsafe' = unsafe /\ acted' = acted /\ flow' = flow /\ place' = "executing" /\ ~resumed'
      BY <1>2, <2>1, <2>3 DEF TakeNode, given
    <3>6. Told'
      BY <3>0, <3>1, <3>3, <3>4, <3>5 DEF Told, Running, Unreported
    <3> QED
      BY <1>0, <3>2, <3>5, <3>6 DEF IInv, Quiet
  <2> QED
    BY <2>2, <2>3
<1>3. CASE VerdictStep
  <2>1. UNCHANGED <<flow, mode, rows, unsafe, acted>>
    BY <1>3 DEF VerdictStep, Complete, FailClosed, SkipUnsafe, ResumeWithAi, FallbackReturns,
                FallbackRaises, Verdict, given, memory
  <2>2. Told' /\ Running' = Running
    BY <1>0, <2>1, ToldUnchanged
  <2>3. CASE ResumeWithAi
    <3>1. place = "failed" /\ place' = "resuming"
      BY <2>3 DEF ResumeWithAi
    <3>2. mode = "resume_with_ai_if_safe" => ~unsafe
      BY <2>3 DEF ResumeWithAi, FallbackMode
    <3> QED
      BY <1>0, <2>1, <2>2, <3>1, <3>2 DEF IInv, Quiet
  <2>4. CASE ~ResumeWithAi
    <3>1. place' = "ended" /\ resumed' = resumed
      BY <1>3, <2>4 DEF VerdictStep, Complete, FailClosed, SkipUnsafe, FallbackReturns,
                        FallbackRaises, Verdict
    <3> QED
      BY <1>0, <2>1, <2>2, <3>1 DEF IInv, Quiet
  <2> QED
    BY <2>3, <2>4
<1>4. CASE ExecutorRaises
  <2>1. Told' /\ Running' = Running
    BY <1>0, <1>4, ToldUnchanged DEF ExecutorRaises, Verdict, given, memory
  <2> QED
    BY <1>0, <1>4, <2>1 DEF IInv, Quiet, ExecutorRaises, Verdict, given, memory
<1>5. CASE Abandoned
  <2>1. Told' /\ Running' = Running
    BY <1>0, <1>5, ToldUnchanged DEF Abandoned, given, memory
  <2> QED
    BY <1>0, <1>5, <2>1 DEF IInv, Quiet, Abandoned, given, memory
<1>6. ASSUME NEW n \in Nodes, Act(n) PROVE IInv'
  <2>1. Running' = Running /\ n \in Running /\ acted' = acted \cup {n}
    BY <1>6 DEF Act, Running
  <2>2. UNCHANGED <<flow, mode, rows, unsafe, place, resumed>>
    BY <1>6 DEF Act, given, memory
  <2>3. Told'
    BY <1>0, <2>1, <2>2 DEF Told, Unreported
  <2>4. MayAct(flow.kind[n])
    BY <1>6 DEF Act
  <2> QED
    BY <1>0, <2>1, <2>2, <2>3, <2>4 DEF IInv, Quiet
<1>7. ASSUME NEW n \in Nodes, NodeSucceeds(n) PROVE IInv'
  <2>1. \A m \in Nodes : /\ rows'[m].status = IF m = n THEN "succeeded" ELSE rows[m].status
                         /\ rows'[m].error = rows[m].error
    BY <1>0, <1>7 DEF NodeSucceeds, TypeOK, NodeRow
  <2>2. Running' = {} /\ ~resumed
    BY <1>7, <2>1, Returned DEF NodeSucceeds
  <2>3. UNCHANGED <<flow, mode, acted, resumed>> /\ place' = "looping"
    BY <1>7 DEF NodeSucceeds, given
  <2>4. PICK report \in BOOLEAN :
            Reports(flow.kind[n], n \in acted, report) /\ unsafe' = UnsafeSoFar(report)
    BY <1>7 DEF NodeSucceeds
  <2>5. n \in acted => unsafe'
    <3>1. ASSUME n \in acted PROVE report
      <4>1. MayAct(flow.kind[n])
        BY <1>0, <3>1 DEF Quiet
      <4> QED
        BY <2>4, <3>1, <4>1, ActedReported
    <3> QED
      BY <2>4, <3>1 DEF UnsafeSoFar
  <2>6. \A m \in acted : m # n => unsafe \/ Unreported(m)
    BY <1>0, <1>7 DEF NodeSucceeds, Told, Quiet
  <2>7. unsafe => unsafe'
    BY <2>4 DEF UnsafeSoFar
  <2>8. Told'
    BY <1>0, <2>1, <2>3, <2>5, <2>6, <2>7 DEF Told, Unreported, TypeOK
  <2> QED
    BY <1>0, <2>2, <2>3, <2>8 DEF IInv, Quiet
<1>8. ASSUME NEW n \in Nodes, NodeFails(n) \/ NodeRaises(n) PROVE IInv'
  <2>1. PICK error \in {"reported", "raised"} :
            rows' = [rows EXCEPT ![n].status = "failed", ![n].error = error]
    BY <1>8 DEF NodeFails, NodeRaises, Failure
  <2>2. n \in Running /\ place = "executing"
    BY <1>8 DEF NodeFails, NodeRaises
  <2>3. UNCHANGED <<flow, mode, acted, resumed>> /\ place' = "failed"
    BY <1>8 DEF NodeFails, NodeRaises, Failure, given
  <2>4. \A m \in Nodes : /\ rows'[m].status = IF m = n THEN "failed" ELSE rows[m].status
                         /\ rows'[m].error = IF m = n THEN error ELSE rows[m].error
    BY <1>0, <2>1 DEF TypeOK, NodeRow
  <2>5. Running' = {} /\ ~resumed
    BY <2>2, <2>4, Returned
  <2>6. n \in acted => unsafe' \/ Unreported(n)'
    <3>1. CASE NodeFails(n)
      <4>1. PICK report \in BOOLEAN : Reports(flow.kind[n], n \in acted, report)
                                      /\ Failure(n, "reported", report)
        BY <3>1 DEF NodeFails
      <4>2. ASSUME n \in acted PROVE report
        <5>1. MayAct(flow.kind[n])
          BY <1>0, <4>2 DEF Quiet
        <5> QED
          BY <4>1, <4>2, <5>1, ActedReported
      <4>3. report => unsafe'
        BY <4>1 DEF Failure, UnsafeSoFar
      <4> QED
        BY <4>2, <4>3
    <3>2. CASE NodeRaises(n)
      <4>1. flow.kind[n] \in Kinds
        BY <1>0, GraphAssumption DEF TypeOK, Flow
      <4>2. n \in acted => RaisedUnsafe(flow.kind[n]) \/ flow.kind[n] \in {"agent", "code"}
        BY <1>0, <4>1 DEF Quiet, MayAct, RaisedUnsafe, Kinds
      <4>3. RaisedUnsafe(flow.kind[n]) => unsafe'
        BY <3>2 DEF NodeRaises, Failure, UnsafeSoFar
      <4>4. rows'[n].error = "raised"
        <5>1. rows' = [rows EXCEPT ![n].status = "failed", ![n].error = "raised"]
          BY <3>2 DEF NodeRaises, Failure
        <5> QED
          BY <1>0, <5>1 DEF TypeOK, NodeRow
      <4> QED
        BY <2>3, <4>2, <4>3, <4>4 DEF Unreported
    <3> QED
      BY <1>8, <3>1, <3>2
  <2>7. \A m \in acted : m # n => unsafe \/ Unreported(m)
    BY <1>0, <2>2 DEF Told, Quiet
  <2>8. unsafe => unsafe'
    BY <1>8 DEF NodeFails, NodeRaises, Failure, UnsafeSoFar
  <2>9. Told'
    BY <1>0, <2>3, <2>4, <2>6, <2>7, <2>8 DEF Told, Unreported, TypeOK
  <2> QED
    BY <1>0, <2>3, <2>5, <2>9 DEF IInv, Quiet
<1>9. ASSUME NEW e \in TopEdges, EdgeStep(e) PROVE IInv'
  <2>1. place = "looping" /\ UNCHANGED <<flow, mode, place, unsafe, acted, resumed>>
    BY <1>9 DEF EdgeStep, EdgeResolved, TargetReady, TargetSkipped, given
  <2>2. Running = {} /\ ~resumed
    BY <1>0, <2>1 DEF Quiet
  <2>3. \A m \in Nodes : /\ rows'[m].error = rows[m].error
                         /\ rows'[m].status = rows[m].status \/ rows'[m].status = "skipped"
    <3>1. e.target \in Nodes
      BY <1>0, <1>9, FrameTypes, GraphAssumption DEF TypeOK, Flow, Edge
    <3>2. rows' = rows \/ rows' = [rows EXCEPT ![e.target] =
                                    [@ EXCEPT !.status = "skipped", !.index = counter + 1]]
      BY <1>9 DEF EdgeStep, EdgeResolved, TargetReady, TargetSkipped
    <3>3. rows \in [Nodes -> NodeRow]
      BY <1>0 DEF TypeOK
    <3> TAKE m \in Nodes
    <3>4. rows'[m] = rows[m] \/ rows'[m] = [rows[m] EXCEPT !.status = "skipped", !.index = counter + 1]
      BY <3>1, <3>2, <3>3
    <3>5. rows[m] \in NodeRow
      BY <3>3
    <3> QED
      BY <3>4, <3>5 DEF NodeRow
  <2>4. Running' = {}
    BY <2>2, <2>3 DEF Running
  <2>5. Told'
    BY <1>0, <2>1, <2>2, <2>3 DEF Told, Unreported, TypeOK
  <2> QED
    BY <1>0, <2>1, <2>2, <2>4, <2>5 DEF IInv, Quiet
<1>10. CASE UNCHANGED vars
  <2>1. Told' /\ Running' = Running
    BY <1>0, <1>10, ToldUnchanged DEF vars
  <2> QED
    BY <1>0, <1>10, <2>1 DEF IInv, Quiet, vars
<1> QED
  BY <1>1, <1>2, <1>3, <1>4, <1>5, <1>6, <1>7, <1>8, <1>9, <1>10 DEF Next, NodeStep

LEMMA SafeImplies == IInv => FallbackOnlyIfSafe
  BY DEF IInv, Told, Quiet, FallbackOnlyIfSafe

\* For every flow: under resume_with_ai_if_safe the prompt fallback follows
\* only a run in which no node acted, except a failing agent or code node
\* whose adapter raised.
THEOREM FallbackSafe == Spec => []FallbackOnlyIfSafe
  BY SafeInit, SafeNext, SafeImplies, PTL DEF Spec

-----------------------------------------------------------------------------
(* Validation: induction over the rounds of peeling. *)

\* Induction over the natural numbers, for a set of them.
LEMMA NatSetInduction ==
    ASSUME NEW S, 0 \in S, \A i \in Nat : i \in S => i + 1 \in S
    PROVE  Nat \subseteq S
<1> SUFFICES ASSUME Nat \ S # {} PROVE FALSE
  OBVIOUS
<1> DEFINE R == OpToRel(<, Nat)
<1>1. \A i, j \in Nat : i < j => <<i, j>> \in R
  BY DEF OpToRel
<1>2. IsWellFoundedOn(R, Nat)
  BY NatLessThanWellFounded
<1> HIDE DEF R
<1>3. \E i \in Nat \ S : \A j \in Nat \ S : ~(<<j, i>> \in R)
  BY <1>2, WFMin
<1>4. PICK i \in Nat \ S : \A j \in Nat \ S : ~(j < i)
  BY <1>1, <1>3
<1>5. i # 0 /\ i - 1 \in Nat /\ (i - 1) + 1 = i
  BY <1>4
<1>6. i - 1 \in S
  BY <1>4, <1>5
<1> QED
  BY <1>4, <1>5, <1>6

\* A value and a function from values to values define a sequence of values.
LEMMA Iteration ==
    ASSUME NEW S, NEW a \in S, NEW F \in [S -> S]
    PROVE  \E f \in [Nat -> S] : f[0] = a /\ \A i \in Nat : f[i + 1] = F[f[i]]
<1> DEFINE Upto(n, g) == g \in [0..n -> S] /\ g[0] = a /\ \A i \in 0..n - 1 : g[i + 1] = F[g[i]]
<1>1. \A n \in Nat : \E g : Upto(n, g)
  <2> DEFINE T == {n \in Nat : \E g : Upto(n, g)}
  <2>1. 0 \in T
    <3>1. Upto(0, [i \in 0..0 |-> a])
      OBVIOUS
    <3> QED
      BY <3>1
  <2>2. ASSUME NEW n \in Nat, n \in T PROVE n + 1 \in T
    <3>1. PICK g : Upto(n, g)
      BY <2>2
    <3> DEFINE h == [i \in 0..n + 1 |-> IF i = n + 1 THEN F[g[n]] ELSE g[i]]
    <3>2. h \in [0..n + 1 -> S]
      BY <3>1
    <3>3. h[0] = a
      BY <3>1
    <3>4. \A i \in 0..(n + 1) - 1 : h[i + 1] = F[h[i]]
      <4> TAKE i \in 0..(n + 1) - 1
      <4>1. CASE i = n
        BY <4>1
      <4>2. CASE i # n
        BY <3>1, <4>2
      <4> QED
        BY <4>1, <4>2
    <3> HIDE DEF h
    <3> QED
      BY <3>2, <3>3, <3>4
  <2> HIDE DEF T
  <2>3. Nat \subseteq T
    BY <2>1, <2>2, NatSetInduction
  <2> QED
    BY <2>3 DEF T
<1>2. ASSUME NEW n \in Nat, NEW m \in Nat, n <= m, NEW g, NEW h, Upto(n, g), Upto(m, h)
      PROVE  \A i \in 0..n : g[i] = h[i]
  <2> DEFINE T == {i \in Nat : i <= n => g[i] = h[i]}
  <2>1. 0 \in T
    BY <1>2
  <2>2. ASSUME NEW i \in Nat, i \in T PROVE i + 1 \in T
    BY <1>2, <2>2
  <2> HIDE DEF T
  <2>3. Nat \subseteq T
    BY <2>1, <2>2, NatSetInduction
  <2> QED
    BY <2>3 DEF T
<1> DEFINE pick == [n \in Nat |-> CHOOSE g : Upto(n, g)]
           f == [n \in Nat |-> pick[n][n]]
<1>3. \A n \in Nat : Upto(n, pick[n])
  BY <1>1
<1> HIDE DEF pick
<1>4. f \in [Nat -> S]
  BY <1>3
<1>5. f[0] = a
  BY <1>3
<1>6. ASSUME NEW i \in Nat PROVE f[i + 1] = F[f[i]]
  <2>1. pick[i + 1][i + 1] = F[pick[i + 1][i]]
    BY <1>3
  <2> HIDE DEF Upto
  <2>2. pick[i][i] = pick[i + 1][i]
    <3>1. Upto(i, pick[i]) /\ Upto(i + 1, pick[i + 1]) /\ i <= i + 1 /\ i \in 0..i
      BY <1>3
    <3> QED
      BY <1>2, <3>1
  <2> QED
    BY <2>1, <2>2
<1> HIDE DEF f
<1> QED
  BY <1>4, <1>5, <1>6

\* One round of peeling.
Round(edges, P) == {n \in Nodes : \A e \in edges : e.target = n => e.source \in P}

\* Peeled is the last of as many rounds as there are nodes.
LEMMA PeeledByRounds ==
    ASSUME NEW edges
    PROVE  \E peel \in [Nat -> SUBSET Nodes] :
             /\ peel[0] = {} /\ \A i \in Nat : peel[i + 1] = Round(edges, peel[i])
             /\ Peeled(edges) = peel[Cardinality(Nodes)]
<1> DEFINE Def(p) == [i \in Nat |-> IF i = 0 THEN {}
                                  ELSE {n \in Nodes : \A e \in edges :
                                          e.target = n => e.source \in p[i - 1]}]
           peel == CHOOSE p : p = Def(p)
<1>1. Peeled(edges) = peel[Cardinality(Nodes)]
  BY DEF Peeled
<1>2. \E p \in [Nat -> SUBSET Nodes] : p[0] = {} /\ \A i \in Nat : p[i + 1] = Round(edges, p[i])
  <2> DEFINE S == SUBSET Nodes
             F == [P \in S |-> Round(edges, P)]
  <2>1. {} \in S /\ F \in [S -> S]
    BY DEF Round
  <2>2. \A P \in S : F[P] = Round(edges, P)
    OBVIOUS
  <2> HIDE DEF S, F
  <2>5. ASSUME NEW a \in S
        PROVE  \E p \in [Nat -> S] : p[0] = a /\ \A i \in Nat : p[i + 1] = F[p[i]]
    BY <2>1, Iteration
  <2>3. PICK p \in [Nat -> S] : p[0] = {} /\ \A i \in Nat : p[i + 1] = F[p[i]]
    BY <2>1, <2>5
  <2>4. \A i \in Nat : p[i + 1] = Round(edges, p[i])
    BY <2>2, <2>3
  <2> QED
    BY <2>3, <2>4 DEF S
<1>3. PICK p \in [Nat -> SUBSET Nodes] :
        p[0] = {} /\ \A i \in Nat : p[i + 1] = Round(edges, p[i])
  BY <1>2
<1>4. p = Def(p)
  <2>1. \A i \in Nat : p[i] = Def(p)[i]
    <3> TAKE i \in Nat
    <3>1. CASE i = 0
      BY <1>3, <3>1
    <3>2. CASE i # 0
      <4>1. i - 1 \in Nat /\ (i - 1) + 1 = i
        BY <3>2
      <4>2. p[i] = Round(edges, p[i - 1])
        BY <1>3, <4>1
      <4> QED
        BY <3>2, <4>2 DEF Round
    <3> QED
      BY <3>1, <3>2
  <2> DEFINE d == Def(p)
  <2>2. d = [i \in Nat |-> d[i]]
    OBVIOUS
  <2> HIDE DEF d
  <2>3. p = d
    BY <1>3, <2>1, <2>2 DEF d
  <2> QED
    BY <2>3 DEF d
<1>5. peel = Def(peel)
  <2> HIDE DEF Def
  <2> QED
    BY <1>4
<1> HIDE DEF peel
<1>6. peel \in [Nat -> SUBSET Nodes] /\ peel[0] = {}
  <2> DEFINE d == Def(peel)
  <2>1. \A i \in Nat : d[i] \subseteq Nodes
    OBVIOUS
  <2>2. d = [i \in Nat |-> d[i]] /\ d[0] = {}
    OBVIOUS
  <2> HIDE DEF d
  <2>3. d \in [Nat -> SUBSET Nodes]
    BY <2>1, <2>2
  <2> QED
    BY <1>5, <2>2, <2>3 DEF d
<1>7. ASSUME NEW i \in Nat PROVE peel[i + 1] = Round(edges, peel[i])
  <2>1. i + 1 \in Nat /\ i + 1 # 0 /\ (i + 1) - 1 = i
    OBVIOUS
  <2>2. peel[i + 1] = Def(peel)[i + 1]
    BY <1>5, Zenon
  <2>3. Def(peel)[i + 1] = {n \in Nodes : \A e \in edges :
                               e.target = n => e.source \in peel[(i + 1) - 1]}
    BY <2>1
  <2> QED
    BY <2>1, <2>2, <2>3 DEF Round
<1> QED
  BY <1>1, <1>6, <1>7

\* A set that a node joins once all nodes before it are in holds every node.
LEMMA AcyclicInduction ==
    ASSUME NEW edges, ValidateEdges(edges), NEW S, Round(edges, S) \subseteq S
    PROVE  Nodes \subseteq S
<1>1. PICK peel \in [Nat -> SUBSET Nodes] :
          /\ peel[0] = {} /\ \A i \in Nat : peel[i + 1] = Round(edges, peel[i])
          /\ Peeled(edges) = peel[Cardinality(Nodes)]
  BY PeeledByRounds
<1> DEFINE T == {i \in Nat : peel[i] \subseteq S}
<1>2. 0 \in T
  BY <1>1
<1>3. ASSUME NEW i \in Nat, i \in T PROVE i + 1 \in T
  BY <1>1, <1>3 DEF Round
<1> HIDE DEF T
<1>4. Nat \subseteq T
  BY <1>2, <1>3, NatSetInduction
<1>5. Cardinality(Nodes) \in Nat
  BY GraphAssumption, FS_CardinalityType
<1> QED
  BY <1>1, <1>4, <1>5 DEF T, ValidateEdges

\* Nodes in a circle: each of them has one before it among them.
CyclicSet(edges, S) ==
    S # {} /\ \A n \in S : \E e \in edges : e.target = n /\ e.source \in S

\* For every number of nodes, peeling accepts a flow exactly if no set of its
\* nodes is cyclic (_validate_nodes_and_edges).
THEOREM ValidationFindsCycles ==
    ASSUME NEW edges \in SUBSET Edge
    PROVE  ValidateEdges(edges) <=> ~\E S \in SUBSET Nodes : CyclicSet(edges, S)
<1>1. ASSUME ValidateEdges(edges), NEW S \in SUBSET Nodes, CyclicSet(edges, S) PROVE FALSE
  <2>1. Round(edges, Nodes \ S) \subseteq Nodes \ S
    BY <1>1 DEF Round, CyclicSet
  <2>2. Nodes \subseteq Nodes \ S
    BY <1>1, <2>1, AcyclicInduction
  <2> QED
    BY <1>1, <2>2 DEF CyclicSet
<1>2. ASSUME ~\E S \in SUBSET Nodes : CyclicSet(edges, S) PROVE ValidateEdges(edges)
  <2>1. PICK peel \in [Nat -> SUBSET Nodes] :
            /\ peel[0] = {} /\ \A i \in Nat : peel[i + 1] = Round(edges, peel[i])
            /\ Peeled(edges) = peel[Cardinality(Nodes)]
    BY PeeledByRounds
  <2>2. \A i \in Nat : IsFiniteSet(peel[i]) /\ Cardinality(peel[i]) \in Nat
    BY GraphAssumption, FS_Subset, FS_CardinalityType
  <2> DEFINE Grown == {i \in Nat : peel[i] \subseteq peel[i + 1]}
             Big == {i \in Nat : i <= Cardinality(peel[i]) \/ peel[i] = Nodes}
  <2>3. Nat \subseteq Grown
    <3>1. 0 \in Grown
      BY <2>1
    <3>2. ASSUME NEW i \in Nat, i \in Grown PROVE i + 1 \in Grown
      <4>1. Round(edges, peel[i]) \subseteq Round(edges, peel[i + 1])
        BY <3>2 DEF Round
      <4> QED
        BY <2>1, <4>1
    <3> HIDE DEF Grown
    <3> QED
      BY <3>1, <3>2, NatSetInduction
  <2>4. Nat \subseteq Big
    <3>1. 0 \in Big
      BY <2>2
    <3>2. ASSUME NEW i \in Nat, i \in Big PROVE i + 1 \in Big
      <4>1. peel[i] \subseteq peel[i + 1] /\ peel[i + 1] = Round(edges, peel[i])
        BY <2>1, <2>3
      <4>2. CASE peel[i] = Nodes
        BY <2>1, <4>1, <4>2
      <4>3. CASE peel[i] # Nodes
        <5>1. ~CyclicSet(edges, Nodes \ peel[i])
          BY <1>2
        <5>2. PICK n \in Nodes \ peel[i] : n \in Round(edges, peel[i])
          <6>1. Nodes \ peel[i] # {}
            BY <2>1, <4>3
          <6>2. PICK n \in Nodes \ peel[i] :
                  ~\E e \in edges : e.target = n /\ e.source \in Nodes \ peel[i]
            BY <5>1, <6>1 DEF CyclicSet
          <6> QED
            BY <6>2 DEF Round, Edge
        <5>3. peel[i] # peel[i + 1]
          BY <4>1, <5>2
        <5>4. /\ Cardinality(peel[i]) <= Cardinality(peel[i + 1])
              /\ Cardinality(peel[i]) # Cardinality(peel[i + 1])
          BY <2>2, <4>1, <5>3, FS_Subset
        <5> QED
          BY <2>2, <3>2, <4>3, <5>4
      <4> QED
        BY <4>2, <4>3
    <3> HIDE DEF Big
    <3> QED
      BY <3>1, <3>2, NatSetInduction
  <2> DEFINE N == Cardinality(Nodes)
  <2>5. N \in Nat /\ (N <= Cardinality(peel[N]) => peel[N] = Nodes)
    <3>1. N \in Nat
      BY GraphAssumption, FS_CardinalityType
    <3>2. /\ Cardinality(peel[N]) <= N
          /\ N = Cardinality(peel[N]) => Nodes = peel[N]
      BY <2>1, <3>1, GraphAssumption, FS_Subset
    <3> QED
      BY <2>2, <3>1, <3>2
  <2> QED
    BY <2>1, <2>4, <2>5 DEF ValidateEdges
<1> QED
  BY <1>1, <1>2

-----------------------------------------------------------------------------
(* Refinement: the edges on the stack, and what they leave resolved. *)

Open(fr) == UNION {fr[i] : i \in DOMAIN fr}
Disjoint(fr) == \A i, j \in DOMAIN fr : i # j => fr[i] \cap fr[j] = {}

\* The stack without its last call, and with one more.
LEMMA PopFrame ==
    ASSUME NEW S, NEW fr \in Seq(SUBSET S), fr # <<>>, Disjoint(fr)
    PROVE  /\ Front(fr) \in Seq(SUBSET S) /\ Disjoint(Front(fr))
           /\ Open(Front(fr)) = Open(fr) \ Last(fr) /\ Last(fr) \subseteq Open(fr)
<1> DEFINE n == Len(fr)
           T == SUBSET S
<1>1. n \in Nat \ {0} /\ DOMAIN fr = 1..n /\ Last(fr) = fr[n]
  BY EmptySeq, LenProperties DEF Last
<1>2. \A i \in 1..n - 1 : fr[i] \in T
  BY <1>1, ElementOfSeq
<1> HIDE DEF T
<1>3. /\ Front(fr) \in Seq(T) /\ DOMAIN Front(fr) = 1..n - 1
      /\ \A i \in 1..n - 1 : Front(fr)[i] = fr[i]
  BY <1>1, <1>2, SubSeqProperties DEF Front
<1> HIDE DEF n
<1>4. Disjoint(Front(fr))
  BY <1>1, <1>3 DEF Disjoint
<1>5. \A e : e \in Open(Front(fr)) <=> \E i \in 1..n - 1 : e \in fr[i]
  BY <1>3 DEF Open
<1>6. \A e : e \in Open(fr) <=> \E i \in 1..n : e \in fr[i]
  BY <1>1 DEF Open
<1>7. \A i \in 1..n - 1 : fr[i] \cap fr[n] = {}
  BY <1>1 DEF Disjoint
<1>8. 1..n = (1..n - 1) \cup {n}
  BY <1>1
<1> QED
  BY <1>1, <1>3, <1>4, <1>5, <1>6, <1>7, <1>8 DEF T

LEMMA PushFrame ==
    ASSUME NEW S, NEW fr \in Seq(SUBSET S), Disjoint(fr),
           NEW edges \in SUBSET S, edges \cap Open(fr) = {}
    PROVE  /\ fr \o Unresolved(edges) \in Seq(SUBSET S)
           /\ Disjoint(fr \o Unresolved(edges))
           /\ Open(fr \o Unresolved(edges)) = Open(fr) \cup edges
<1> DEFINE n == Len(fr)
           T == SUBSET S
           new == fr \o Unresolved(edges)
<1>1. n \in Nat /\ DOMAIN fr = 1..n
  BY LenProperties
<1> SUFFICES new \in Seq(T) /\ Disjoint(new) /\ Open(new) = Open(fr) \cup edges
  OBVIOUS
<1>2. CASE edges = {}
  <2>1. new = fr
    BY <1>2, ConcatEmptySeq DEF Unresolved
  <2> QED
    BY <1>2, <2>1
<1>3. CASE edges # {}
  <2>0. edges \in T /\ fr \in Seq(T)
    OBVIOUS
  <2> HIDE DEF T
  <2>1. <<edges>> \in Seq(T) /\ Len(<<edges>>) = 1 /\ <<edges>>[1] = edges
    BY <2>0
  <2>2. /\ new \in Seq(T) /\ Len(new) = n + 1
        /\ \A i \in 1..n + 1 : new[i] = IF i <= n THEN fr[i] ELSE <<edges>>[i - n]
    BY <1>3, <2>0, <2>1, ConcatProperties DEF Unresolved
  <2> HIDE DEF new
  <2>3. DOMAIN new = 1..n + 1
    BY <2>2, LenProperties
  <2> HIDE DEF n
  <2>4. \A i \in 1..n : i \in 1..n + 1 /\ new[i] = fr[i]
    BY <1>1, <2>2
  <2>5. n + 1 \in 1..n + 1 /\ new[n + 1] = edges
    BY <1>1, <2>1, <2>2
  <2>6. 1..n + 1 = (1..n) \cup {n + 1} /\ n + 1 \notin 1..n
    BY <1>1
  <2>7. \A e : e \in Open(new) <=> \E i \in 1..n + 1 : e \in new[i]
    BY <2>3 DEF Open
  <2>8. \A e : e \in Open(fr) <=> \E i \in 1..n : e \in fr[i]
    BY <1>1 DEF Open
  <2>9. Open(new) = Open(fr) \cup edges
    BY <2>4, <2>5, <2>6, <2>7, <2>8
  <2>10. Disjoint(new)
    <3> SUFFICES ASSUME NEW i \in 1..n + 1, NEW j \in 1..n + 1, i # j
                 PROVE  new[i] \cap new[j] = {}
      BY <2>3 DEF Disjoint
    <3>1. CASE i \in 1..n /\ j \in 1..n
      BY <1>1, <2>4, <3>1 DEF Disjoint
    <3>2. \A k \in 1..n : fr[k] \cap edges = {}
      BY <2>8
    <3>3. CASE i = n + 1 \/ j = n + 1
      BY <2>4, <2>5, <2>6, <3>2, <3>3
    <3> QED
      BY <2>6, <3>1, <3>3
  <2> QED
    BY <2>2, <2>9, <2>10
<1> QED
  BY <1>2, <1>3

\* _resolve_edge takes e from its frame; a skipped node adds its own edges.
LEMMA RestOpen ==
    ASSUME frames \in Seq(SUBSET flow.edges), Disjoint(frames), NEW e \in TopEdges
    PROVE  /\ Rest(e) \in Seq(SUBSET flow.edges) /\ Disjoint(Rest(e))
           /\ Open(Rest(e)) = Open(frames) \ {e} /\ e \in Open(frames)
<1>1. frames # <<>> /\ TopEdges = Last(frames)
  BY DEF TopEdges
<1> DEFINE S == flow.edges
<1>2. /\ Front(frames) \in Seq(SUBSET S) /\ Disjoint(Front(frames))
      /\ Open(Front(frames)) = Open(frames) \ TopEdges /\ TopEdges \subseteq Open(frames)
  BY <1>1, PopFrame
<1>3. TopEdges \ {e} \in SUBSET S
  BY <1>1, SmallSequences
<1>4. (TopEdges \ {e}) \cap Open(Front(frames)) = {}
  BY <1>2
<1>5. /\ Rest(e) \in Seq(SUBSET S) /\ Disjoint(Rest(e))
      /\ Open(Rest(e)) = Open(Front(frames)) \cup (TopEdges \ {e})
  <2> DEFINE front == Front(frames)
             edges == TopEdges \ {e}
  <2>1. /\ front \in Seq(SUBSET S) /\ Disjoint(front)
        /\ edges \in SUBSET S /\ edges \cap Open(front) = {}
    BY <1>2, <1>3, <1>4
  <2>2. Rest(e) = front \o Unresolved(edges)
    BY DEF Rest
  <2> HIDE DEF front, edges
  <2>3. /\ front \o Unresolved(edges) \in Seq(SUBSET S)
        /\ Disjoint(front \o Unresolved(edges))
        /\ Open(front \o Unresolved(edges)) = Open(front) \cup edges
    <3> HIDE DEF S
    <3> QED
      BY <2>1, PushFrame
  <2> QED
    BY <2>2, <2>3 DEF front, edges
<1> QED
  BY <1>2, <1>5

-----------------------------------------------------------------------------
(* The invariant behind the refinement: queue, counters and stack hold what *)
(* the trace of a dataflow says.                                            *)

Status(n) == rows[n].status
Final(n) == state[n].finalized

\* Edges that _resolve_edge has counted: those behind a finalized node that
\* are not on the stack any more.
Resolved == {e \in flow.edges : Final(e.source)} \ Open(frames)
ResolvedTo(n) == Resolved \cap Incoming(n)
DeliveredTo(n) == {e \in ResolvedTo(n) : e.port \in out[e.source]}

\* The counters of PendingNodeState count edges.
Counted == \A n \in Nodes : /\ state[n].resolved = Cardinality(ResolvedTo(n))
                            /\ state[n].delivered = Cardinality(DeliveredTo(n))

\* A node is finalized when the trace says how it ended, and has outputs only
\* when it succeeded.
Settles == \A n \in Nodes : /\ Final(n) <=> Status(n) \in {"succeeded", "skipped"}
                            /\ out[n] # {} => Status(n) = "succeeded"

FramesOpen == Disjoint(frames) /\ \A e \in Open(frames) : Final(e.source)

\* A node has all of its inputs before anything happens to it, and one that
\* waits in the deque is wanted.
Arrived == \A n \in Nodes :
    /\ state[n].enqueued \/ Status(n) # "pending" => ResolvedTo(n) = Incoming(n)
    /\ state[n].enqueued => Incoming(n) = {} \/ DeliveredTo(n) # {}

\* The deque holds the enqueued nodes, each once and none that began.
Queued == /\ \A i, j \in DOMAIN ready : ready[i] = ready[j] => i = j
          /\ \A n \in Nodes : state[n].enqueued <=> \E i \in DOMAIN ready : ready[i] = n
          /\ \A n \in Nodes : state[n].enqueued => Status(n) = "pending"

\* No node is forgotten: one that is neither done nor in the deque lacks an input.
Remembered == place \in {"looping", "executing"} =>
    \A n \in Nodes : Status(n) = "pending" /\ ~state[n].enqueued => ResolvedTo(n) # Incoming(n)

Places ==
    /\ place = "triggered" => /\ run = "none" /\ ready = <<>> /\ frames = <<>>
                              /\ \A n \in Nodes : Status(n) = "pending"
    /\ place \in {"looping", "executing", "failed", "resuming"} => run = "running"
    /\ place = "executing" => frames = <<>>
    /\ place \in {"triggered", "looping", "executing"} => \A n \in Nodes : Status(n) # "failed"
    /\ place \in {"failed", "resuming"} => \E n \in Nodes : Status(n) = "failed"

GraphInv == /\ IInv /\ ValidateEdges(flow.edges)
            /\ Counted /\ Settles /\ FramesOpen /\ Arrived /\ Queued /\ Remembered /\ Places

LEMMA FiniteEdges ==
    ASSUME TypeOK
    PROVE  /\ flow.edges \subseteq Edge /\ IsFiniteSet(flow.edges)
           /\ \A E \in SUBSET flow.edges : IsFiniteSet(E) /\ Cardinality(E) \in Nat
<1>1. flow.edges \subseteq Edge /\ IsFiniteSet(flow.edges)
  BY GraphAssumption DEF TypeOK, Flow
<1> QED
  BY <1>1, FS_Subset, FS_CardinalityType

\* Nothing that the invariant speaks about changes but the place and the acts.
LEMMA GraphSame ==
    ASSUME GraphInv, IInv', UNCHANGED <<flow, state, out, frames, ready>>,
           \A n \in Nodes : rows'[n].status = rows[n].status,
           place' \in {"looping", "executing"} => place \in {"looping", "executing"},
           Places'
    PROVE  GraphInv'
<1>1. \A n \in Nodes : /\ ResolvedTo(n)' = ResolvedTo(n) /\ DeliveredTo(n)' = DeliveredTo(n)
                       /\ Incoming(n)' = Incoming(n)
  BY DEF ResolvedTo, DeliveredTo, Resolved, Incoming, Final
<1>2. Counted' /\ Settles' /\ FramesOpen'
  BY <1>1 DEF GraphInv, Counted, Settles, FramesOpen, Status, Final
<1>3. Arrived' /\ Queued' /\ Remembered'
  BY <1>1 DEF GraphInv, Arrived, Queued, Remembered, Status
<1> QED
  BY <1>2, <1>3 DEF GraphInv

\* What is known of an edge that is about to be resolved: its target lacks it.
LEMMA EdgeTaken ==
    ASSUME GraphInv, place = "looping", NEW e \in TopEdges
    PROVE  LET t == e.target
               delivers == IF e.port \in out[e.source] THEN {e} ELSE {}
           IN
           /\ e \in flow.edges /\ e \in Incoming(t) /\ t \in Nodes /\ e.source \in Nodes
           /\ Final(e.source) /\ e.source # t
           /\ e \in Open(frames) /\ e \notin Resolved
           /\ Status(t) = "pending" /\ ~state[t].enqueued /\ ~Final(t)
           /\ state[t].resolved + 1 = Cardinality(ResolvedTo(t) \cup {e})
           /\ DeliveredOver(e) = Cardinality(DeliveredTo(t) \cup delivers)
           /\ DeliveredOver(e) > 0 <=> DeliveredTo(t) \cup delivers # {}
           /\ AllResolved(e) <=> ResolvedTo(t) \cup {e} = Incoming(t)
<1> DEFINE t == e.target
           delivers == IF e.port \in out[e.source] THEN {e} ELSE {}
<1>0. TypeOK
  BY DEF GraphInv, IInv
<1>1. e \in flow.edges /\ t \in Nodes /\ e.source \in Nodes
  BY <1>0, FrameTypes, FiniteEdges DEF TypeOK, Edge
<1>2. e \in Open(frames)
  BY <1>0, RestOpen DEF GraphInv, FramesOpen, TypeOK
<1>3. Final(e.source) /\ e \notin Resolved /\ e \in Incoming(t)
  BY <1>1, <1>2 DEF GraphInv, FramesOpen, Resolved, Incoming
<1>4. ResolvedTo(t) # Incoming(t)
  BY <1>3 DEF ResolvedTo
<1>5. Status(t) = "pending" /\ ~state[t].enqueued /\ ~Final(t)
  BY <1>1, <1>4 DEF GraphInv, Arrived, Settles
<1>6. /\ Incoming(t) \in SUBSET flow.edges /\ ResolvedTo(t) \in SUBSET flow.edges
      /\ DeliveredTo(t) \in SUBSET flow.edges /\ delivers \in SUBSET flow.edges
      /\ e \notin ResolvedTo(t) /\ e \notin DeliveredTo(t) /\ ResolvedTo(t) \subseteq Incoming(t)
  BY <1>1, <1>3 DEF Incoming, ResolvedTo, DeliveredTo, Resolved
<1>7. /\ IsFiniteSet(Incoming(t)) /\ Cardinality(Incoming(t)) \in Nat
      /\ IsFiniteSet(ResolvedTo(t)) /\ Cardinality(ResolvedTo(t)) \in Nat
      /\ IsFiniteSet(DeliveredTo(t)) /\ Cardinality(DeliveredTo(t)) \in Nat
  BY <1>0, <1>6, FiniteEdges
<1>8. /\ Cardinality(ResolvedTo(t) \cup {e}) = Cardinality(ResolvedTo(t)) + 1
      /\ Cardinality(DeliveredTo(t) \cup {e}) = Cardinality(DeliveredTo(t)) + 1
  BY <1>6, <1>7, FS_AddElement
<1>9. /\ state[t].resolved = Cardinality(ResolvedTo(t))
      /\ state[t].delivered = Cardinality(DeliveredTo(t))
  BY <1>1 DEF GraphInv, Counted
<1>10. state[t].resolved + 1 = Cardinality(ResolvedTo(t) \cup {e})
  BY <1>8, <1>9
<1>11. DeliveredOver(e) = Cardinality(DeliveredTo(t) \cup delivers)
  <2>1. CASE e.port \in out[e.source]
    BY <1>8, <1>9, <2>1 DEF DeliveredOver
  <2>2. CASE e.port \notin out[e.source]
    BY <1>7, <1>9, <2>2 DEF DeliveredOver
  <2> QED
    BY <2>1, <2>2
<1>12. DeliveredOver(e) > 0 <=> DeliveredTo(t) \cup delivers # {}
  <2>1. DeliveredTo(t) \cup delivers \in SUBSET flow.edges
    BY <1>6
  <2>2. /\ IsFiniteSet(DeliveredTo(t) \cup delivers)
        /\ Cardinality(DeliveredTo(t) \cup delivers) \in Nat
    BY <1>0, <2>1, FiniteEdges
  <2>3. Cardinality(DeliveredTo(t) \cup delivers) = 0 <=> DeliveredTo(t) \cup delivers = {}
    BY <2>2, FS_EmptySet
  <2> HIDE DEF delivers, t
  <2> QED
    BY <1>11, <2>2, <2>3
<1>13. AllResolved(e) <=> ResolvedTo(t) \cup {e} = Incoming(t)
  <2>1. ResolvedTo(t) \cup {e} \in SUBSET Incoming(t)
    BY <1>3, <1>6
  <2>2. Cardinality(Incoming(t)) = Cardinality(ResolvedTo(t) \cup {e})
          => Incoming(t) = ResolvedTo(t) \cup {e}
    BY <1>7, <2>1, FS_Subset
  <2>3. AllResolved(e) <=> Cardinality(ResolvedTo(t) \cup {e}) = Cardinality(Incoming(t))
    BY <1>10 DEF AllResolved
  <2> QED
    BY <2>2, <2>3
<1>14. e.source # t
  BY <1>3, <1>5
<1> HIDE DEF delivers
<1> QED
  BY <1>1, <1>2, <1>3, <1>5, <1>10, <1>11, <1>12, <1>13, <1>14 DEF delivers

LEMMA GraphInit == Init => GraphInv
<1> SUFFICES ASSUME Init PROVE GraphInv
  OBVIOUS
<1>1. IInv /\ TypeOK
  BY SafeInit DEF IInv
<1>2. /\ \A n \in Nodes : /\ Status(n) = "pending" /\ ~Final(n) /\ ~state[n].enqueued
                          /\ state[n].resolved = 0 /\ state[n].delivered = 0 /\ out[n] = {}
      /\ ready = <<>> /\ frames = <<>> /\ place = "triggered" /\ run = "none"
      /\ ValidateEdges(flow.edges)
  BY DEF Init, Status, Final
<1>3. DOMAIN ready = {} /\ DOMAIN frames = {}
  BY <1>2
<1>4. Resolved = {}
  BY <1>1, <1>2, FiniteEdges DEF Resolved, Edge
<1>5. \A n \in Nodes : ResolvedTo(n) = {} /\ DeliveredTo(n) = {}
  BY <1>4 DEF ResolvedTo, DeliveredTo
<1>6. Counted
  BY <1>2, <1>5, FS_EmptySet DEF Counted
<1>7. FramesOpen /\ Queued
  BY <1>2, <1>3 DEF FramesOpen, Disjoint, Open, Queued
<1>8. Settles /\ Arrived /\ Remembered /\ Places
  BY <1>2, <1>5 DEF Settles, Arrived, Remembered, Places, Status, Final
<1> QED
  BY <1>1, <1>2, <1>6, <1>7, <1>8 DEF GraphInv

\* The deque starts with every entry.
LEMMA BootstrapInv == GraphInv /\ IInv' /\ Bootstrap => GraphInv'
<1> SUFFICES ASSUME GraphInv, IInv', Bootstrap PROVE GraphInv'
  OBVIOUS
<1>0. TypeOK
  BY DEF GraphInv, IInv
<1>1. /\ ready = <<>> /\ frames = <<>>
      /\ \A n \in Nodes : Status(n) = "pending" /\ ~Final(n)
  BY DEF Bootstrap, GraphInv, Places, Settles
<1>2. /\ place' = "looping" /\ run' = "running"
      /\ UNCHANGED <<flow, rows, out, frames>>
  BY DEF Bootstrap, given
<1>3. \A n \in Nodes : /\ state'[n].enqueued = (n \in Entries)
                       /\ state'[n].finalized = state[n].finalized
                       /\ state'[n].resolved = state[n].resolved
                       /\ state'[n].delivered = state[n].delivered
  <2> TAKE n \in Nodes
  <2>1. state'[n] = [state[n] EXCEPT !.enqueued = n \in Entries]
    BY DEF Bootstrap
  <2>2. state[n] \in PendingState
    BY <1>0 DEF TypeOK
  <2> QED
    BY <2>1, <2>2 DEF PendingState
<1>4. DOMAIN frames = {} /\ Resolved = {} /\ Resolved' = {}
  <2>1. DOMAIN frames = {}
    BY <1>1
  <2>2. \A e \in flow.edges : ~Final(e.source) /\ ~Final(e.source)'
    BY <1>0, <1>1, <1>3, FiniteEdges DEF Final, Edge
  <2> QED
    BY <1>2, <2>1, <2>2 DEF Resolved
<1>5. \A n \in Nodes : /\ ResolvedTo(n) = {} /\ DeliveredTo(n) = {}
                       /\ ResolvedTo(n)' = {} /\ DeliveredTo(n)' = {}
                       /\ Incoming(n)' = Incoming(n)
  BY <1>2, <1>4 DEF ResolvedTo, DeliveredTo, Incoming
<1>6. Counted'
  <2>1. \A n \in Nodes : /\ state[n].resolved = Cardinality({})
                         /\ state[n].delivered = Cardinality({})
    BY <1>5 DEF GraphInv, Counted
  <2> QED
    BY <1>3, <1>5, <2>1 DEF Counted
<1>7. Settles' /\ FramesOpen'
  <2>1. Settles'
    BY <1>2, <1>3 DEF GraphInv, Settles, Status, Final
  <2>2. FramesOpen'
    BY <1>2, <1>4 DEF FramesOpen, Disjoint, Open
  <2> QED
    BY <2>1, <2>2
<1>8. Arrived' /\ Remembered'
  <2>1. \A n \in Nodes : Status(n)' = "pending" /\ (state'[n].enqueued <=> Incoming(n) = {})
    BY <1>1, <1>2, <1>3 DEF Status, Entries
  <2> QED
    BY <1>5, <2>1 DEF Arrived, Remembered
<1>9. Queued'
  <2> DEFINE N == Cardinality(Entries)
  <2>1. IsFiniteSet(Entries) /\ N \in Nat
    BY GraphAssumption, FS_Subset, FS_CardinalityType DEF Entries
  <2>2. /\ ready' \in [1..N -> Entries]
        /\ \A i, j \in DOMAIN ready' : ready'[i] = ready'[j] => i = j
    BY DEF Bootstrap
  <2>3. ready' \in Injection(1..N, Entries)
    BY <2>2 DEF Injection, IsInjective
  <2>4. Cardinality(1..N) = N
    BY <2>1, FS_Interval
  <2>5. ready' \in Surjection(1..N, Entries)
    BY <2>1, <2>3, <2>4, FS_Injection
  <2>6. \A n \in Entries : \E i \in 1..N : ready'[i] = n
    BY <2>5 DEF Surjection
  <2>7. \A n \in Nodes : Status(n)' = "pending"
    BY <1>1, <1>2 DEF Status
  <2>8. \A n \in Nodes : n \in Entries <=> \E i \in DOMAIN ready' : ready'[i] = n
    BY <2>2, <2>6
  <2> QED
    BY <1>3, <2>2, <2>7, <2>8 DEF Queued
<1>10. Places'
  BY <1>1, <1>2 DEF Places, Status
<1> QED
  BY <1>2, <1>6, <1>7, <1>8, <1>9, <1>10 DEF GraphInv

\* The head of the deque never began, so it begins now.
LEMMA HeadBegins ==
    ASSUME GraphInv, TakeNode
    PROVE  LET h == Head(ready) IN
           /\ h \in Nodes /\ Status(h) = "pending" /\ ~Final(h) /\ state[h].enqueued
           /\ ResolvedTo(h) = Incoming(h) /\ (Incoming(h) = {} \/ DeliveredTo(h) # {})
           /\ \A m \in Nodes : rows'[m].status = IF m = h THEN "running" ELSE rows[m].status
           /\ state' = [state EXCEPT ![h].enqueued = FALSE]
           /\ place' = "executing" /\ ready # <<>>
<1> DEFINE h == Head(ready)
<1>0. TypeOK
  BY DEF GraphInv, IInv
<1>1. h \in Nodes /\ ready # <<>> /\ h = ready[1] /\ 1 \in DOMAIN ready
  BY <1>0, HeadTailProperties, LenProperties, EmptySeq DEF TakeNode, TypeOK
<1>2. state[h].enqueued
  BY <1>1 DEF GraphInv, Queued
<1>3. Status(h) = "pending" /\ ~Final(h)
  BY <1>1, <1>2 DEF GraphInv, Queued, Settles
<1>4. ResolvedTo(h) = Incoming(h) /\ (Incoming(h) = {} \/ DeliveredTo(h) # {})
  BY <1>1, <1>2 DEF GraphInv, Arrived
<1>5. /\ rows' = [rows EXCEPT ![h] = [rows[h] EXCEPT !.status = "running", !.index = counter + 1]]
      /\ state' = [state EXCEPT ![h].enqueued = FALSE] /\ place' = "executing"
  BY <1>3 DEF TakeNode, Final
<1>6. \A m \in Nodes : rows'[m].status = IF m = h THEN "running" ELSE rows[m].status
  <2>1. \A m \in Nodes : rows[m] \in NodeRow
    BY <1>0 DEF TypeOK
  <2>2. [rows[h] EXCEPT !.status = "running", !.index = counter + 1].status = "running"
    BY <1>1, <2>1 DEF NodeRow
  <2>3. \A m \in Nodes : m # h => rows'[m] = rows[m]
    BY <1>0, <1>1, <1>5 DEF TypeOK
  <2>4. rows'[h] = [rows[h] EXCEPT !.status = "running", !.index = counter + 1]
    BY <1>0, <1>1, <1>5 DEF TypeOK
  <2> QED
    BY <2>2, <2>3, <2>4
<1> QED
  BY <1>1, <1>2, <1>3, <1>4, <1>5, <1>6

LEMMA TakeInv == GraphInv /\ IInv' /\ TakeNode => GraphInv'
<1> SUFFICES ASSUME GraphInv, IInv', TakeNode PROVE GraphInv'
  OBVIOUS
<1> DEFINE h == Head(ready)
<1>0. TypeOK
  BY DEF GraphInv, IInv
<1>1. /\ h \in Nodes /\ Status(h) = "pending" /\ ~Final(h) /\ state[h].enqueued
      /\ ResolvedTo(h) = Incoming(h) /\ place' = "executing"
      /\ \A m \in Nodes : rows'[m].status = IF m = h THEN "running" ELSE rows[m].status
  BY HeadBegins
<1>2. /\ UNCHANGED <<flow, out, frames, run>> /\ place = "looping" /\ frames = <<>>
      /\ ready' = Tail(ready) /\ ready # <<>>
  BY DEF TakeNode, given
<1>3. \A n \in Nodes : /\ state'[n].enqueued <=> n # h /\ state[n].enqueued
                       /\ state'[n].finalized = state[n].finalized
                       /\ state'[n].resolved = state[n].resolved
                       /\ state'[n].delivered = state[n].delivered
  <2>1. state' = [state EXCEPT ![h].enqueued = FALSE]
    BY HeadBegins
  <2> QED
    BY <1>0, <1>1, <2>1 DEF TypeOK, PendingState
<1> HIDE DEF h
<1>4. \A n \in Nodes : /\ ResolvedTo(n)' = ResolvedTo(n) /\ DeliveredTo(n)' = DeliveredTo(n)
                       /\ Incoming(n)' = Incoming(n)
  <2>1. \A e \in flow.edges : Final(e.source)' = Final(e.source)
    BY <1>0, <1>3, FiniteEdges DEF Final, Edge
  <2>2. Resolved' = Resolved
    BY <1>2, <2>1 DEF Resolved
  <2> QED
    BY <1>2, <2>2 DEF ResolvedTo, DeliveredTo, Incoming
<1>5. Counted'
  BY <1>3, <1>4 DEF GraphInv, Counted
<1>6. Settles'
  BY <1>1, <1>2, <1>3 DEF GraphInv, Settles, Status, Final
<1>7. FramesOpen'
  BY <1>2 DEF FramesOpen, Disjoint, Open
<1>8. Arrived' /\ Remembered'
  BY <1>1, <1>2, <1>3, <1>4 DEF GraphInv, Arrived, Remembered, Status
<1>9. Queued'
  <2> DEFINE n == Len(ready)
  <2>1. /\ n \in Nat \ {0} /\ DOMAIN ready = 1..n /\ h = ready[1]
        /\ DOMAIN ready' = 1..n - 1 /\ \A i \in 1..n - 1 : ready'[i] = ready[i + 1]
    BY <1>0, <1>2, HeadTailProperties, LenProperties, EmptySeq DEF TypeOK, h
  <2> HIDE DEF n
  <2>2. \A i, j \in DOMAIN ready' : ready'[i] = ready'[j] => i = j
    <3>1. \A i \in 1..n - 1 : i + 1 \in 1..n
      BY <2>1
    <3> QED
      BY <2>1, <3>1 DEF GraphInv, Queued
  <2>3. ASSUME NEW m \in Nodes
        PROVE  (\E i \in DOMAIN ready' : ready'[i] = m) <=> state'[m].enqueued
    <3>1. \A i \in 1..n : i # 1 => i - 1 \in 1..n - 1 /\ ready'[i - 1] = ready[i]
      BY <2>1
    <3>2. \A i \in 1..n - 1 : i + 1 \in 1..n /\ i + 1 # 1
      BY <2>1
    <3>3. state[m].enqueued <=> \E i \in 1..n : ready[i] = m
      BY <2>1 DEF GraphInv, Queued
    <3>4. \A i \in 1..n : ready[i] = h <=> i = 1
      BY <2>1 DEF GraphInv, Queued
    <3>5. CASE m = h
      BY <1>3, <2>1, <3>2, <3>4, <3>5
    <3>6. CASE m # h
      <4>1. (\E i \in 1..n - 1 : ready'[i] = m) => \E i \in 1..n : ready[i] = m
        BY <2>1, <3>2
      <4>2. (\E i \in 1..n : ready[i] = m) => \E i \in 1..n - 1 : ready'[i] = m
        BY <2>1, <3>1, <3>6
      <4> QED
        BY <1>3, <2>1, <3>3, <3>6, <4>1, <4>2
    <3> QED
      BY <3>5, <3>6
  <2>4. \A m \in Nodes : state'[m].enqueued => Status(m)' = "pending"
    BY <1>1, <1>3 DEF GraphInv, Queued, Status
  <2> QED
    BY <2>2, <2>3, <2>4 DEF Queued
<1>10. Places'
  BY <1>1, <1>2 DEF GraphInv, Places, Status
<1> QED
  BY <1>2, <1>5, <1>6, <1>7, <1>8, <1>9, <1>10 DEF GraphInv

\* The node that ran is done and its edges go on the stack: what is resolved stays.
LEMMA SucceedInv == ASSUME GraphInv, IInv', NEW n \in Nodes, NodeSucceeds(n) PROVE GraphInv'
<1>0. TypeOK
  BY DEF GraphInv, IInv
<1>1. /\ place = "executing" /\ place' = "looping" /\ frames = <<>> /\ Status(n) = "running"
      /\ UNCHANGED <<flow, run, ready>>
      /\ frames' = Unresolved(Outgoing(n))
  BY DEF NodeSucceeds, GraphInv, Places, Running, Status, given
<1>2. \A m \in Nodes : rows'[m].status = IF m = n THEN "succeeded" ELSE rows[m].status
  BY <1>0 DEF NodeSucceeds, TypeOK, NodeRow
<1>3. \A m \in Nodes : /\ state'[m].enqueued = state[m].enqueued
                       /\ state'[m].finalized <=> m = n \/ state[m].finalized
                       /\ state'[m].resolved = state[m].resolved
                       /\ state'[m].delivered = state[m].delivered
  BY <1>0 DEF NodeSucceeds, TypeOK, PendingState
<1>4. \A m \in Nodes : m # n => out'[m] = out[m]
  BY <1>0 DEF NodeSucceeds, TypeOK
<1>5. ~Final(n) /\ Running = {n}
  <2>1. \A m \in Running : m = n
    BY <1>1 DEF GraphInv, IInv, Quiet, Running, Status
  <2> QED
    BY <1>1, <2>1 DEF GraphInv, Settles, Running, Status
<1>6. Open(frames) = {} /\ Open(frames') = Outgoing(n) /\ Disjoint(frames')
  <2>1. CASE Outgoing(n) = {}
    BY <1>1, <2>1 DEF Open, Unresolved, Disjoint
  <2>2. CASE Outgoing(n) # {}
    <3>1. frames' = <<Outgoing(n)>>
      BY <1>1, <2>2 DEF Unresolved
    <3>2. DOMAIN frames' = {1} /\ frames'[1] = Outgoing(n)
      BY <3>1
    <3> QED
      BY <1>1, <3>2 DEF Open, Disjoint
  <2> QED
    BY <2>1, <2>2
<1>7. Resolved' = Resolved
  <2>1. \A e \in flow.edges : Final(e.source)' <=> e.source = n \/ Final(e.source)
    BY <1>0, <1>3, FiniteEdges DEF Final, Edge
  <2>2. \A e \in flow.edges : e \in Outgoing(n) <=> e.source = n
    BY DEF Outgoing
  <2> QED
    BY <1>1, <1>5, <1>6, <2>1, <2>2 DEF Resolved
<1>8. \A m \in Nodes : /\ ResolvedTo(m)' = ResolvedTo(m) /\ DeliveredTo(m)' = DeliveredTo(m)
                       /\ Incoming(m)' = Incoming(m)
  <2>1. \A m \in Nodes : ResolvedTo(m)' = ResolvedTo(m) /\ Incoming(m)' = Incoming(m)
    BY <1>1, <1>7 DEF ResolvedTo, Incoming
  <2>2. \A e \in Resolved : out'[e.source] = out[e.source]
    <3> TAKE e \in Resolved
    <3>1. e.source \in Nodes /\ e.source # n
      BY <1>0, <1>5, FiniteEdges DEF Resolved, Edge
    <3> QED
      BY <1>4, <3>1
  <2> QED
    BY <2>1, <2>2 DEF DeliveredTo, ResolvedTo
<1>9. Counted'
  BY <1>3, <1>8 DEF GraphInv, Counted
<1>10. Settles'
  BY <1>2, <1>3, <1>4 DEF GraphInv, Settles, Status, Final
<1>11. FramesOpen'
  <2>1. \A e \in Outgoing(n) : Final(e.source)'
    BY <1>3 DEF Outgoing, Final
  <2> QED
    BY <1>6, <2>1 DEF FramesOpen
<1>12. Arrived' /\ Remembered'
  BY <1>1, <1>2, <1>3, <1>8 DEF GraphInv, Arrived, Remembered, Status
<1>13. Queued'
  BY <1>1, <1>2, <1>3 DEF GraphInv, Queued, Status
<1>14. Places'
  BY <1>1, <1>2 DEF GraphInv, Places, Status
<1> QED
  BY <1>1, <1>9, <1>10, <1>11, <1>12, <1>13, <1>14 DEF GraphInv

LEMMA FailInv ==
    ASSUME GraphInv, IInv', NEW n \in Nodes, NodeFails(n) \/ NodeRaises(n) PROVE GraphInv'
<1>0. TypeOK
  BY DEF GraphInv, IInv
<1>1. PICK error \in {"reported", "raised"} :
          rows' = [rows EXCEPT ![n].status = "failed", ![n].error = error]
  BY DEF NodeFails, NodeRaises, Failure
<1>2. /\ place = "executing" /\ place' = "failed" /\ Status(n) = "running"
      /\ UNCHANGED <<flow, state, out, frames, ready, run>>
  BY DEF NodeFails, NodeRaises, Failure, Running, Status, given
<1>3. \A m \in Nodes : rows'[m].status = IF m = n THEN "failed" ELSE rows[m].status
  BY <1>0, <1>1 DEF TypeOK, NodeRow
<1>4. \A m \in Nodes : /\ ResolvedTo(m)' = ResolvedTo(m) /\ DeliveredTo(m)' = DeliveredTo(m)
                       /\ Incoming(m)' = Incoming(m)
  BY <1>2 DEF ResolvedTo, DeliveredTo, Resolved, Incoming, Final
<1>5. Counted' /\ FramesOpen'
  BY <1>2, <1>4 DEF GraphInv, Counted, FramesOpen, Final
<1>6. Settles'
  BY <1>2, <1>3 DEF GraphInv, Settles, Status, Final
<1>7. Arrived' /\ Remembered'
  BY <1>2, <1>3, <1>4 DEF GraphInv, Arrived, Remembered, Status
<1>8. Queued'
  BY <1>2, <1>3 DEF GraphInv, Queued, Status
<1>9. Places'
  BY <1>2, <1>3 DEF GraphInv, Places, Status
<1> QED
  BY <1>2, <1>5, <1>6, <1>7, <1>8, <1>9 DEF GraphInv

\* e leaves the stack, and the edges behind its target join it if the target
\* is finalized now: e is resolved, and nothing else.
LEMMA EdgeResolves ==
    ASSUME GraphInv, place = "looping", NEW e \in TopEdges, NEW skips \in BOOLEAN,
           UNCHANGED <<flow, out>>,
           frames' = IF skips THEN Rest(e) \o Unresolved(Outgoing(e.target)) ELSE Rest(e),
           \A n \in Nodes : state'[n].finalized <=> state[n].finalized \/ (skips /\ n = e.target)
    PROVE  /\ Resolved' = Resolved \cup {e} /\ FramesOpen'
           /\ \A n \in Nodes : /\ Incoming(n)' = Incoming(n)
                               /\ n # e.target => /\ ResolvedTo(n)' = ResolvedTo(n)
                                                  /\ DeliveredTo(n)' = DeliveredTo(n)
           /\ ResolvedTo(e.target)' = ResolvedTo(e.target) \cup {e}
           /\ DeliveredTo(e.target)' = DeliveredTo(e.target) \cup
                                         (IF e.port \in out[e.source] THEN {e} ELSE {})
<1> DEFINE t == e.target
<1>0. TypeOK /\ frames \in Seq(SUBSET flow.edges) /\ Disjoint(frames)
  BY DEF GraphInv, IInv, TypeOK, FramesOpen
<1>1. /\ e \in flow.edges /\ t \in Nodes /\ Final(e.source) /\ e.source # t
      /\ e \in Open(frames) /\ ~Final(t) /\ e \in Incoming(t)
  BY EdgeTaken
<1>2. /\ Rest(e) \in Seq(SUBSET flow.edges) /\ Disjoint(Rest(e))
      /\ Open(Rest(e)) = Open(frames) \ {e}
  BY <1>0, RestOpen
<1>3. Outgoing(t) \in SUBSET flow.edges /\ Outgoing(t) \cap Open(Rest(e)) = {}
  <2>1. \A d \in Open(frames) : Final(d.source)
    BY DEF GraphInv, FramesOpen
  <2> QED
    BY <1>1, <1>2, <2>1 DEF Outgoing
<1>4. /\ Disjoint(frames')
      /\ Open(frames') = (Open(frames) \ {e}) \cup (IF skips THEN Outgoing(t) ELSE {})
  <2>1. CASE skips
    <3>1. /\ Disjoint(Rest(e) \o Unresolved(Outgoing(t)))
          /\ Open(Rest(e) \o Unresolved(Outgoing(t))) = Open(Rest(e)) \cup Outgoing(t)
      <4> DEFINE S == flow.edges
                 rest == Rest(e)
                 behind == Outgoing(t)
      <4>1. /\ rest \in Seq(SUBSET S) /\ Disjoint(rest)
            /\ behind \in SUBSET S /\ behind \cap Open(rest) = {}
        BY <1>2, <1>3
      <4> HIDE DEF S, rest, behind
      <4>2. /\ Disjoint(rest \o Unresolved(behind))
            /\ Open(rest \o Unresolved(behind)) = Open(rest) \cup behind
        BY <4>1, PushFrame
      <4> QED
        BY <4>2 DEF rest, behind
    <3> QED
      BY <1>2, <2>1, <3>1
  <2>2. CASE ~skips
    BY <1>2, <2>2
  <2> QED
    BY <2>1, <2>2
<1>5. \A d \in flow.edges : /\ d.source \in Nodes
                            /\ Final(d.source)' <=> Final(d.source) \/ (skips /\ d.source = t)
                            /\ d \in Outgoing(t) <=> d.source = t
  BY <1>0, FiniteEdges DEF Edge, Final, Outgoing
<1> HIDE DEF t
<1>6. Resolved' = Resolved \cup {e}
  <2>1. ASSUME NEW d \in flow.edges PROVE d \in Resolved' <=> d \in Resolved \cup {e}
    <3>1. d \in Resolved' <=> Final(d.source)' /\ d \notin Open(frames')
      BY <2>1 DEF Resolved
    <3>2. d \in Resolved <=> Final(d.source) /\ d \notin Open(frames)
      BY DEF Resolved
    <3>3. d \in Open(frames') <=> (d \in Open(frames) /\ d # e) \/ (skips /\ d.source = t)
      BY <1>4, <1>5
    <3>4. d = e => Final(d.source) /\ d.source # t
      BY <1>1 DEF t
    <3> QED
      BY <1>1, <1>5, <3>1, <3>2, <3>3, <3>4
  <2>2. Resolved' \subseteq flow.edges /\ Resolved \cup {e} \subseteq flow.edges
    BY <1>1 DEF Resolved
  <2> QED
    BY <2>1, <2>2
<1>7. FramesOpen'
  <2>1. \A d \in Open(frames) : d \in flow.edges /\ Final(d.source)
    <3>1. \A d \in Open(frames) : d \in flow.edges
      <4>1. \A i \in DOMAIN frames : frames[i] \in SUBSET flow.edges
        BY <1>0, ElementOfSeq, LenProperties
      <4> QED
        BY <4>1 DEF Open
    <3> QED
      BY <3>1 DEF GraphInv, FramesOpen
  <2>2. \A d \in Open(frames') : Final(d.source)'
    BY <1>3, <1>4, <1>5, <2>1
  <2> QED
    BY <1>4, <2>2 DEF FramesOpen
<1>8. \A n \in Nodes : Incoming(n)' = Incoming(n)
  BY DEF Incoming
<1>9. \A n \in Nodes : e \in Incoming(n) <=> n = t
  BY <1>1 DEF Incoming, t
<1>10. \A n \in Nodes : ResolvedTo(n)' = ResolvedTo(n) \cup (IF n = t THEN {e} ELSE {})
  BY <1>6, <1>8, <1>9 DEF ResolvedTo
<1>11. \A n \in Nodes : DeliveredTo(n)' = {d \in ResolvedTo(n)' : d.port \in out[d.source]}
  BY DEF DeliveredTo
<1>12. \A n \in Nodes : n # t => ResolvedTo(n)' = ResolvedTo(n) /\ DeliveredTo(n)' = DeliveredTo(n)
  BY <1>10, <1>11 DEF DeliveredTo
<1>13. DeliveredTo(t)' = DeliveredTo(t) \cup (IF e.port \in out[e.source] THEN {e} ELSE {})
  <2>1. DeliveredTo(t)' = {d \in ResolvedTo(t) \cup {e} : d.port \in out[d.source]}
    BY <1>1, <1>10, <1>11
  <2> QED
    BY <2>1 DEF DeliveredTo
<1> QED
  BY <1>1, <1>6, <1>7, <1>8, <1>10, <1>12, <1>13 DEF t

LEMMA EdgeResolvedInv ==
    ASSUME GraphInv, IInv', NEW e \in TopEdges, EdgeResolved(e) PROVE GraphInv'
<1> DEFINE t == e.target
           delivers == IF e.port \in out[e.source] THEN {e} ELSE {}
<1>0. TypeOK /\ place = "looping" /\ place' = "looping" /\ UNCHANGED <<flow, run, rows, ready, out>>
  BY DEF GraphInv, IInv, EdgeResolved, given
<1>1. /\ t \in Nodes /\ Status(t) = "pending" /\ ~state[t].enqueued /\ ~Final(t)
      /\ state[t].resolved + 1 = Cardinality(ResolvedTo(t) \cup {e})
      /\ DeliveredOver(e) = Cardinality(DeliveredTo(t) \cup delivers)
      /\ ResolvedTo(t) \cup {e} # Incoming(t)
  BY <1>0, EdgeTaken DEF EdgeResolved
<1>2. \A n \in Nodes : /\ state'[n].enqueued = state[n].enqueued
                       /\ state'[n].finalized = state[n].finalized
                       /\ n # t => state'[n] = state[n]
  BY <1>0, <1>1 DEF EdgeResolved, Resolve, TypeOK, PendingState
<1>3. state'[t].resolved = state[t].resolved + 1 /\ state'[t].delivered = DeliveredOver(e)
  BY <1>0, <1>1 DEF EdgeResolved, Resolve, TypeOK
<1>4. /\ FramesOpen'
      /\ \A n \in Nodes : /\ Incoming(n)' = Incoming(n)
                          /\ n # t => ResolvedTo(n)' = ResolvedTo(n) /\ DeliveredTo(n)' = DeliveredTo(n)
      /\ ResolvedTo(t)' = ResolvedTo(t) \cup {e}
      /\ DeliveredTo(t)' = DeliveredTo(t) \cup delivers
  <2>1. \A n \in Nodes : state'[n].finalized <=> state[n].finalized \/ (FALSE /\ n = e.target)
    BY <1>2
  <2>2. frames' = IF FALSE THEN Rest(e) \o Unresolved(Outgoing(e.target)) ELSE Rest(e)
    BY DEF EdgeResolved
  <2> QED
    BY <1>0, <2>1, <2>2, EdgeResolves
<1> HIDE DEF t, delivers
<1>5. Counted'
  <2> SUFFICES ASSUME NEW n \in Nodes
               PROVE  /\ state'[n].resolved = Cardinality(ResolvedTo(n)')
                      /\ state'[n].delivered = Cardinality(DeliveredTo(n)')
    BY DEF Counted
  <2>1. CASE n = t
    BY <1>1, <1>3, <1>4, <2>1
  <2>2. CASE n # t
    BY <1>2, <1>4, <2>2 DEF GraphInv, Counted
  <2> QED
    BY <2>1, <2>2
<1>6. Settles' /\ Queued'
  BY <1>0, <1>2 DEF GraphInv, Settles, Queued, Status, Final
<1>7. Arrived' /\ Remembered'
  <2>1. Arrived'
    <3>1. \A n \in Nodes : state'[n].enqueued \/ Status(n)' # "pending"
                             => n # t /\ (state[n].enqueued \/ Status(n) # "pending")
      BY <1>0, <1>1, <1>2 DEF Status
    <3>2. \A n \in Nodes : state'[n].enqueued => n # t /\ state[n].enqueued
      BY <1>1, <1>2
    <3> QED
      BY <1>4, <3>1, <3>2 DEF GraphInv, Arrived
  <2>2. Remembered'
    <3> SUFFICES ASSUME NEW n \in Nodes, Status(n)' = "pending", ~state'[n].enqueued
                 PROVE  ResolvedTo(n)' # Incoming(n)'
      BY DEF Remembered
    <3>1. Status(n) = "pending" /\ ~state[n].enqueued
      BY <1>0, <1>2 DEF Status
    <3>2. CASE n = t
      BY <1>1, <1>4, <3>2
    <3>3. CASE n # t
      BY <1>0, <1>4, <3>1, <3>3 DEF GraphInv, Remembered
    <3> QED
      BY <3>2, <3>3
  <2> QED
    BY <2>1, <2>2
<1>8. Places'
  BY <1>0 DEF GraphInv, Places, Status
<1> QED
  BY <1>0, <1>4, <1>5, <1>6, <1>7, <1>8 DEF GraphInv

\* The last edge of a wanted node was resolved: it joins the deque, at the end.
LEMMA TargetReadyInv ==
    ASSUME GraphInv, IInv', NEW e \in TopEdges, TargetReady(e) PROVE GraphInv'
<1> DEFINE t == e.target
           delivers == IF e.port \in out[e.source] THEN {e} ELSE {}
<1>0. TypeOK /\ place = "looping" /\ place' = "looping" /\ UNCHANGED <<flow, run, rows, out>>
  BY DEF GraphInv, IInv, TargetReady, given
<1>1. /\ t \in Nodes /\ Status(t) = "pending" /\ ~state[t].enqueued /\ ~Final(t)
      /\ state[t].resolved + 1 = Cardinality(ResolvedTo(t) \cup {e})
      /\ DeliveredOver(e) = Cardinality(DeliveredTo(t) \cup delivers)
      /\ ResolvedTo(t) \cup {e} = Incoming(t)
      /\ DeliveredTo(t) \cup delivers # {}
  BY <1>0, EdgeTaken DEF TargetReady
<1>2. /\ \A n \in Nodes : /\ state'[n].enqueued <=> n = t \/ state[n].enqueued
                          /\ state'[n].finalized = state[n].finalized
                          /\ n # t => state'[n] = state[n]
      /\ ready' = Append(ready, t)
  BY <1>0, <1>1 DEF TargetReady, Resolve, TypeOK, PendingState, Final
<1>3. state'[t].resolved = state[t].resolved + 1 /\ state'[t].delivered = DeliveredOver(e)
  BY <1>0, <1>1 DEF TargetReady, Resolve, TypeOK
<1>4. /\ FramesOpen'
      /\ \A n \in Nodes : /\ Incoming(n)' = Incoming(n)
                          /\ n # t => ResolvedTo(n)' = ResolvedTo(n) /\ DeliveredTo(n)' = DeliveredTo(n)
      /\ ResolvedTo(t)' = ResolvedTo(t) \cup {e}
      /\ DeliveredTo(t)' = DeliveredTo(t) \cup delivers
  <2>1. \A n \in Nodes : state'[n].finalized <=> state[n].finalized \/ (FALSE /\ n = e.target)
    BY <1>2
  <2>2. frames' = IF FALSE THEN Rest(e) \o Unresolved(Outgoing(e.target)) ELSE Rest(e)
    BY DEF TargetReady
  <2> QED
    BY <1>0, <2>1, <2>2, EdgeResolves
<1> HIDE DEF t, delivers
<1>5. Counted'
  <2> SUFFICES ASSUME NEW n \in Nodes
               PROVE  /\ state'[n].resolved = Cardinality(ResolvedTo(n)')
                      /\ state'[n].delivered = Cardinality(DeliveredTo(n)')
    BY DEF Counted
  <2>1. CASE n = t
    BY <1>1, <1>3, <1>4, <2>1
  <2>2. CASE n # t
    BY <1>2, <1>4, <2>2 DEF GraphInv, Counted
  <2> QED
    BY <2>1, <2>2
<1>6. Settles'
  BY <1>0, <1>2 DEF GraphInv, Settles, Status, Final
<1>7. Arrived' /\ Remembered'
  <2> SUFFICES ASSUME NEW n \in Nodes
               PROVE  /\ state'[n].enqueued \/ Status(n)' # "pending" => ResolvedTo(n)' = Incoming(n)'
                      /\ state'[n].enqueued => Incoming(n)' = {} \/ DeliveredTo(n)' # {}
                      /\ Status(n)' = "pending" /\ ~state'[n].enqueued => ResolvedTo(n)' # Incoming(n)'
    BY DEF Arrived, Remembered
  <2>1. CASE n = t
    BY <1>1, <1>2, <1>4, <2>1
  <2>2. CASE n # t
    BY <1>0, <1>2, <1>4, <2>2 DEF GraphInv, Arrived, Remembered, Status
  <2> QED
    BY <2>1, <2>2
<1>8. Queued'
  <2> DEFINE k == Len(ready)
  <2>1. /\ k \in Nat /\ DOMAIN ready = 1..k /\ DOMAIN ready' = 1..k + 1
        /\ \A i \in 1..k : ready'[i] = ready[i]
        /\ ready'[k + 1] = t
    BY <1>0, <1>1, <1>2, AppendProperties, LenProperties DEF TypeOK
  <2> HIDE DEF k
  <2>2. 1..k + 1 = (1..k) \cup {k + 1} /\ k + 1 \notin 1..k
    BY <2>1
  <2>3. \A i \in 1..k : ready[i] # t
    BY <1>1, <2>1 DEF GraphInv, Queued
  <2>4. \A i, j \in DOMAIN ready' : ready'[i] = ready'[j] => i = j
    BY <2>1, <2>2, <2>3 DEF GraphInv, Queued
  <2>5. \A n \in Nodes : state'[n].enqueued <=> \E i \in DOMAIN ready' : ready'[i] = n
    <3> TAKE n \in Nodes
    <3>1. state[n].enqueued <=> \E i \in 1..k : ready[i] = n
      BY <2>1 DEF GraphInv, Queued
    <3>2. (\E i \in DOMAIN ready' : ready'[i] = n) <=> n = t \/ \E i \in 1..k : ready[i] = n
      BY <2>1, <2>2
    <3> QED
      BY <1>2, <3>1, <3>2
  <2>6. \A n \in Nodes : state'[n].enqueued => Status(n)' = "pending"
    BY <1>0, <1>1, <1>2 DEF GraphInv, Queued, Status
  <2> QED
    BY <2>4, <2>5, <2>6 DEF Queued
<1>9. Places'
  BY <1>0 DEF GraphInv, Places, Status
<1> QED
  BY <1>0, <1>4, <1>5, <1>6, <1>7, <1>8, <1>9 DEF GraphInv

\* A target without a delivery is skipped at once, and its edges join the stack.
LEMMA SkipEffect ==
    ASSUME GraphInv, NEW e \in TopEdges, TargetSkipped(e)
    PROVE  LET t == e.target IN
           /\ t \in Nodes /\ Status(t) = "pending" /\ ~Final(t) /\ ~state[t].enqueued
           /\ ResolvedTo(t) \cup {e} = Incoming(t) /\ DeliveredTo(t) = {}
           /\ e.port \notin out[e.source] /\ e \in flow.edges /\ Final(e.source)
           /\ \A n \in Nodes : rows'[n].status = IF n = t THEN "skipped" ELSE rows[n].status
           /\ frames' = Rest(e) \o Unresolved(Outgoing(t))
<1> DEFINE t == e.target
<1>0. TypeOK /\ place = "looping"
  BY DEF GraphInv, IInv, TargetSkipped
<1>1. /\ t \in Nodes /\ Status(t) = "pending" /\ ~state[t].enqueued /\ ~Final(t)
      /\ ResolvedTo(t) \cup {e} = Incoming(t) /\ e \in flow.edges /\ Final(e.source)
      /\ ~(DeliveredOver(e) > 0)
      /\ DeliveredOver(e) > 0 <=>
           DeliveredTo(t) \cup (IF e.port \in out[e.source] THEN {e} ELSE {}) # {}
  <2>1. AllResolved(e) /\ DeliveredOver(e) = 0
    BY DEF TargetSkipped
  <2>2. ~(DeliveredOver(e) > 0)
    BY <2>1
  <2> QED
    BY <1>0, <2>1, <2>2, EdgeTaken
<1>2. DeliveredTo(t) = {} /\ e.port \notin out[e.source]
  BY <1>1
<1>3. /\ frames' = Rest(e) \o Unresolved(Outgoing(t))
      /\ rows' = [rows EXCEPT ![t] = [rows[t] EXCEPT !.status = "skipped", !.index = counter + 1]]
  BY <1>1 DEF TargetSkipped, Final
<1>4. \A n \in Nodes : rows'[n].status = IF n = t THEN "skipped" ELSE rows[n].status
  <2>1. \A n \in Nodes : rows[n] \in NodeRow
    BY <1>0 DEF TypeOK
  <2>2. [rows[t] EXCEPT !.status = "skipped", !.index = counter + 1].status = "skipped"
    BY <1>1, <2>1 DEF NodeRow
  <2>3. \A n \in Nodes : n # t => rows'[n] = rows[n]
    BY <1>0, <1>1, <1>3 DEF TypeOK
  <2>4. rows'[t] = [rows[t] EXCEPT !.status = "skipped", !.index = counter + 1]
    BY <1>0, <1>1, <1>3 DEF TypeOK
  <2> QED
    BY <2>2, <2>3, <2>4
<1> QED
  BY <1>1, <1>2, <1>3, <1>4

LEMMA TargetSkippedInv ==
    ASSUME GraphInv, IInv', NEW e \in TopEdges, TargetSkipped(e) PROVE GraphInv'
<1> DEFINE t == e.target
<1>0. TypeOK /\ place = "looping" /\ place' = "looping" /\ UNCHANGED <<flow, run, ready, out>>
  BY DEF GraphInv, IInv, TargetSkipped, given
<1>1. /\ t \in Nodes /\ Status(t) = "pending" /\ ~state[t].enqueued /\ ~Final(t)
      /\ ResolvedTo(t) \cup {e} = Incoming(t) /\ DeliveredTo(t) = {}
      /\ e.port \notin out[e.source]
      /\ \A n \in Nodes : rows'[n].status = IF n = t THEN "skipped" ELSE rows[n].status
      /\ frames' = Rest(e) \o Unresolved(Outgoing(t))
  BY SkipEffect
<1>2. \A n \in Nodes : /\ state'[n].enqueued = state[n].enqueued
                       /\ state'[n].finalized <=> n = t \/ state[n].finalized
                       /\ n # t => state'[n] = state[n]
  BY <1>0, <1>1 DEF TargetSkipped, Resolve, TypeOK, PendingState
<1>3. /\ state'[t].resolved = state[t].resolved + 1 /\ state'[t].delivered = DeliveredOver(e)
      /\ state[t].resolved + 1 = Cardinality(ResolvedTo(t) \cup {e})
      /\ DeliveredOver(e) = Cardinality(DeliveredTo(t) \cup {})
  <2>1. /\ state[t].resolved + 1 = Cardinality(ResolvedTo(t) \cup {e})
        /\ DeliveredOver(e) = Cardinality(DeliveredTo(t) \cup
                                            (IF e.port \in out[e.source] THEN {e} ELSE {}))
    BY <1>0, EdgeTaken
  <2>2. state'[t].resolved = state[t].resolved + 1 /\ state'[t].delivered = DeliveredOver(e)
    BY <1>0, <1>1 DEF TargetSkipped, Resolve, TypeOK
  <2> QED
    BY <1>1, <2>1, <2>2
<1>4. /\ FramesOpen'
      /\ \A n \in Nodes : /\ Incoming(n)' = Incoming(n)
                          /\ n # t => ResolvedTo(n)' = ResolvedTo(n) /\ DeliveredTo(n)' = DeliveredTo(n)
      /\ ResolvedTo(t)' = ResolvedTo(t) \cup {e}
      /\ DeliveredTo(t)' = DeliveredTo(t) \cup {}
  <2>1. \A n \in Nodes : state'[n].finalized <=> state[n].finalized \/ (TRUE /\ n = e.target)
    BY <1>2
  <2>2. frames' = IF TRUE THEN Rest(e) \o Unresolved(Outgoing(e.target)) ELSE Rest(e)
    BY <1>1
  <2> QED
    BY <1>0, <1>1, <2>1, <2>2, EdgeResolves
<1> HIDE DEF t
<1>5. Counted'
  <2> SUFFICES ASSUME NEW n \in Nodes
               PROVE  /\ state'[n].resolved = Cardinality(ResolvedTo(n)')
                      /\ state'[n].delivered = Cardinality(DeliveredTo(n)')
    BY DEF Counted
  <2>1. CASE n = t
    BY <1>3, <1>4, <2>1
  <2>2. CASE n # t
    BY <1>2, <1>4, <2>2 DEF GraphInv, Counted
  <2> QED
    BY <2>1, <2>2
<1>6. Settles'
  <2> SUFFICES ASSUME NEW n \in Nodes
               PROVE  /\ Final(n)' <=> Status(n)' \in {"succeeded", "skipped"}
                      /\ out'[n] # {} => Status(n)' = "succeeded"
    BY DEF Settles
  <2>1. /\ Final(n) <=> Status(n) \in {"succeeded", "skipped"}
        /\ out[n] # {} => Status(n) = "succeeded"
    BY DEF GraphInv, Settles
  <2>2. /\ Status(n)' = IF n = t THEN "skipped" ELSE Status(n)
        /\ Final(n)' <=> n = t \/ Final(n)
    BY <1>1, <1>2 DEF Status, Final
  <2> QED
    BY <1>0, <1>1, <2>1, <2>2
<1>7. Arrived' /\ Remembered'
  <2> SUFFICES ASSUME NEW n \in Nodes
               PROVE  /\ state'[n].enqueued \/ Status(n)' # "pending" => ResolvedTo(n)' = Incoming(n)'
                      /\ state'[n].enqueued => Incoming(n)' = {} \/ DeliveredTo(n)' # {}
                      /\ Status(n)' = "pending" /\ ~state'[n].enqueued => ResolvedTo(n)' # Incoming(n)'
    BY DEF Arrived, Remembered
  <2>1. CASE n = t
    BY <1>1, <1>2, <1>4, <2>1 DEF Status
  <2>2. CASE n # t
    BY <1>0, <1>1, <1>2, <1>4, <2>2 DEF GraphInv, Arrived, Remembered, Status
  <2> QED
    BY <2>1, <2>2
<1>8. Queued'
  <2>1. \A n \in Nodes : state'[n].enqueued => n # t /\ Status(n)' = "pending"
    BY <1>1, <1>2 DEF GraphInv, Queued, Status
  <2> QED
    BY <1>0, <1>2, <2>1 DEF GraphInv, Queued
<1>9. Places'
  BY <1>0, <1>1 DEF GraphInv, Places, Status
<1> QED
  BY <1>0, <1>4, <1>5, <1>6, <1>7, <1>8, <1>9 DEF GraphInv

LEMMA GraphNext == GraphInv /\ [Next]_vars => GraphInv'
<1> SUFFICES ASSUME GraphInv, [Next]_vars PROVE GraphInv'
  OBVIOUS
<1>0. IInv'
  BY SafeNext DEF GraphInv
<1>1. CASE Bootstrap
  BY <1>0, <1>1, BootstrapInv
<1>2. CASE TakeNode
  BY <1>0, <1>2, TakeInv
<1>3. CASE VerdictStep \/ ExecutorRaises \/ Abandoned
  <2>1. /\ UNCHANGED <<flow, rows, state, out, frames, ready>>
        /\ \/ place' \in {"ended", "abandoned"} /\ (place' = "ended" => run' # "none")
           \/ place' = "resuming" /\ place = "failed" /\ run' = run
    BY <1>3 DEF VerdictStep, Complete, FailClosed, SkipUnsafe, ResumeWithAi, FallbackReturns,
                FallbackRaises, ExecutorRaises, Abandoned, Verdict, given, memory
  <2>2. Places'
    BY <2>1 DEF GraphInv, Places, Status
  <2> QED
    BY <1>0, <2>1, <2>2, GraphSame
<1>4. ASSUME NEW n \in Nodes, Act(n) PROVE GraphInv'
  <2>1. UNCHANGED <<flow, rows, state, out, frames, ready, place, run>>
    BY <1>4 DEF Act, given, memory
  <2>2. Places'
    BY <2>1 DEF GraphInv, Places, Status
  <2> QED
    BY <1>0, <2>1, <2>2, GraphSame
<1>5. ASSUME NEW n \in Nodes, NodeStep(n) PROVE GraphInv'
  BY <1>0, <1>5, SucceedInv, FailInv DEF NodeStep
<1>6. ASSUME NEW e \in TopEdges, EdgeStep(e) PROVE GraphInv'
  BY <1>0, <1>6, EdgeResolvedInv, TargetReadyInv, TargetSkippedInv DEF EdgeStep
<1>7. CASE UNCHANGED vars
  <2>1. UNCHANGED <<flow, rows, state, out, frames, ready, place, run>>
    BY <1>7 DEF vars
  <2>2. Places'
    BY <2>1 DEF GraphInv, Places, Status
  <2> QED
    BY <1>0, <2>1, <2>2, GraphSame
<1> QED
  BY <1>1, <1>2, <1>3, <1>4, <1>5, <1>6, <1>7 DEF Next

-----------------------------------------------------------------------------
(* Refinement: every step of the executor is a step of the dataflow. *)

Trace == [n \in Nodes |-> rows[n].status]

\* What the abstract operators say of the state they are mapped to.
LEMMA Mapped ==
    ASSUME TypeOK, NEW n \in Nodes
    PROVE  /\ Dataflow!Settled(n) <=> Status(n) \in {"succeeded", "skipped"}
           /\ Dataflow!Before(n) = {e.source : e \in Incoming(n)}
           /\ Dataflow!Before(n) \subseteq Nodes
<1>1. Dataflow!Before(n) = {e.source : e \in Incoming(n)}
  BY DEF Dataflow!Before, Incoming
<1>2. Dataflow!Before(n) \subseteq Nodes
  BY <1>1, FiniteEdges DEF Incoming, Edge
<1> QED
  BY <1>1, <1>2 DEF Dataflow!Settled, Status

LEMMA MappedDelivery ==
    ASSUME GraphInv, NEW e \in flow.edges, Final(e.source)
    PROVE  Dataflow!Delivered(e) <=> e.port \in out[e.source]
<1>1. e.source \in Nodes
  BY FiniteEdges DEF GraphInv, IInv, Edge
<1>2. out[e.source] # {} => Status(e.source) = "succeeded"
  BY <1>1 DEF GraphInv, Settles
<1> QED
  BY <1>1, <1>2 DEF Dataflow!Delivered, Status

\* A node with all of its inputs is due, and wanted if one of them delivered.
LEMMA MappedDue ==
    ASSUME GraphInv, place = "looping", NEW n \in Nodes, Status(n) = "pending",
           \A e \in Incoming(n) : Final(e.source)
    PROVE  /\ Dataflow!Due(n)
           /\ Dataflow!Wanted(n) <=>
                Incoming(n) = {} \/ \E e \in Incoming(n) : e.port \in out[e.source]
<1>0. TypeOK
  BY DEF GraphInv, IInv
<1>1. run = "running" /\ \A m \in Nodes : Status(m) \notin {"running", "failed"}
  <2>1. Running = {}
    BY DEF GraphInv, IInv, Quiet
  <2> QED
    BY <2>1 DEF GraphInv, Places, Running, Status
<1>2. \A m \in Dataflow!Before(n) : Dataflow!Settled(m)
  <2>1. \A e \in Incoming(n) : e.source \in Nodes /\ Status(e.source) \in {"succeeded", "skipped"}
    BY <1>0, FiniteEdges DEF Incoming, Edge, GraphInv, Settles
  <2> QED
    BY <1>0, <2>1, Mapped
<1>3. Dataflow!Due(n)
  BY <1>1, <1>2 DEF Dataflow!Due, Status
<1>4. Dataflow!Before(n) = {} <=> Incoming(n) = {}
  BY <1>0, Mapped
<1>5. (\E e \in flow.edges : e.target = n /\ Dataflow!Delivered(e))
        <=> \E e \in Incoming(n) : e.port \in out[e.source]
  BY MappedDelivery DEF Incoming
<1> QED
  BY <1>3, <1>4, <1>5 DEF Dataflow!Wanted

\* Where nothing waits and nothing runs, every node of an acyclic flow is settled.
LEMMA AllSettled ==
    ASSUME GraphInv, place = "looping", frames = <<>>, ready = <<>>
    PROVE  \A n \in Nodes : Status(n) \in {"succeeded", "skipped"}
<1>0. TypeOK
  BY DEF GraphInv, IInv
<1> DEFINE S == {n \in Nodes : Status(n) \in {"succeeded", "skipped"}}
<1>1. Round(flow.edges, S) \subseteq S
  <2> SUFFICES ASSUME NEW n \in Nodes, \A e \in flow.edges : e.target = n => e.source \in S
               PROVE  Status(n) \in {"succeeded", "skipped"}
    BY DEF Round
  <2>1. \A e \in Incoming(n) : e \in flow.edges /\ e.source \in Nodes /\ Final(e.source)
    BY <1>0, FiniteEdges DEF Incoming, Edge, GraphInv, Settles
  <2>2. DOMAIN frames = {} /\ DOMAIN ready = {}
    OBVIOUS
  <2>3. ResolvedTo(n) = Incoming(n)
    BY <2>1, <2>2 DEF ResolvedTo, Resolved, Open
  <2>4. ~state[n].enqueued
    BY <2>2 DEF GraphInv, Queued
  <2>5. Status(n) # "pending"
    BY <2>3, <2>4 DEF GraphInv, Remembered
  <2>6. Status(n) \notin {"running", "failed"}
    <3>1. Running = {}
      BY DEF GraphInv, IInv, Quiet
    <3> QED
      BY <3>1 DEF GraphInv, Places, Running, Status
  <2> QED
    BY <1>0, <2>5, <2>6 DEF TypeOK, NodeRow, Status
<1> HIDE DEF S
<1>2. Nodes \subseteq S
  BY <1>1, AcyclicInduction DEF GraphInv
<1> QED
  BY <1>2 DEF S

\* A step that the trace, the outputs and the verdict do not show.
LEMMA Stutters ==
    ASSUME UNCHANGED <<flow, out, run>>, \A n \in Nodes : rows'[n].status = rows[n].status
    PROVE  UNCHANGED Dataflow!vars
  BY DEF Dataflow!vars

LEMMA DataflowInit == Init => Dataflow!Init
<1> SUFFICES ASSUME Init PROVE Dataflow!Init
  OBVIOUS
<1>1. TypeOK
  BY TypeInit
<1>2. flow.edges \in SUBSET Dataflow!Edge
  BY <1>1, FiniteEdges DEF Edge, Dataflow!Edge
<1> QED
  BY <1>2 DEF Init, Dataflow!Init

LEMMA DataflowNext == GraphInv /\ [Next]_vars => [Dataflow!Next]_(Dataflow!vars)
<1> SUFFICES ASSUME GraphInv, [Next]_vars PROVE Dataflow!Next \/ UNCHANGED Dataflow!vars
  OBVIOUS
<1>0. TypeOK
  BY DEF GraphInv, IInv
<1>1. CASE Bootstrap
  <2>1. run = "none" /\ run' = "running" /\ UNCHANGED <<flow, rows, out>>
    BY <1>1 DEF Bootstrap, GraphInv, Places, given
  <2>2. Dataflow!StartRun
    BY <2>1 DEF Dataflow!StartRun
  <2> QED
    BY <2>2 DEF Dataflow!Next
<1>2. CASE TakeNode
  <2>1. PICK h \in Nodes :
        /\ Status(h) = "pending" /\ ResolvedTo(h) = Incoming(h)
        /\ Incoming(h) = {} \/ DeliveredTo(h) # {}
        /\ \A m \in Nodes : rows'[m].status = IF m = h THEN "running" ELSE rows[m].status
    BY <1>2, HeadBegins
  <2>2. place = "looping" /\ UNCHANGED <<flow, out, run>>
    BY <1>2 DEF TakeNode, given
  <2>3. \A e \in Incoming(h) : Final(e.source)
    BY <2>1 DEF ResolvedTo, Resolved
  <2>4. Incoming(h) = {} \/ \E e \in Incoming(h) : e.port \in out[e.source]
    BY <2>1 DEF DeliveredTo, ResolvedTo
  <2>5. Dataflow!Due(h) /\ Dataflow!Wanted(h)
    BY <2>1, <2>2, <2>3, <2>4, MappedDue
  <2>6. Trace' = [Trace EXCEPT ![h] = "running"]
    BY <2>1 DEF Trace
  <2>7. Dataflow!Begin(h)
    BY <2>2, <2>5, <2>6 DEF Dataflow!Begin, Trace
  <2> QED
    BY <2>7 DEF Dataflow!Next
<1>3. CASE VerdictStep
  <2>0. UNCHANGED <<flow, rows, out>>
    BY <1>3 DEF VerdictStep, Complete, FailClosed, SkipUnsafe, ResumeWithAi, FallbackReturns,
                FallbackRaises, Verdict, given, memory
  <2>1. CASE Complete
    <3>1. place = "looping" /\ frames = <<>> /\ ready = <<>> /\ run' = "succeeded"
      BY <2>1 DEF Complete, Verdict
    <3>2. run = "running"
      BY <3>1 DEF GraphInv, Places
    <3>3. \A n \in Nodes : Dataflow!Settled(n)
      BY <1>0, <3>1, AllSettled, Mapped
    <3>4. Dataflow!Complete
      BY <2>0, <3>1, <3>2, <3>3 DEF Dataflow!Complete
    <3> QED
      BY <3>4 DEF Dataflow!Next
  <2>2. CASE ResumeWithAi
    <3>1. run' = run
      BY <2>2 DEF ResumeWithAi
    <3> QED
      BY <2>0, <3>1, Stutters
  <2>3. CASE FailClosed \/ SkipUnsafe
    <3>1. run = "running" /\ run' = "failed"
      BY <2>3 DEF FailClosed, SkipUnsafe, Verdict, GraphInv, Places
    <3>2. Dataflow!EndOtherwise
      BY <2>0, <3>1 DEF Dataflow!EndOtherwise
    <3> QED
      BY <3>2 DEF Dataflow!Next
  <2>4. CASE FallbackReturns \/ FallbackRaises
    <3>1. run = "running" /\ run' \in {"fallback_succeeded", "fallback_failed"}
      BY <2>4 DEF FallbackReturns, FallbackRaises, Verdict, GraphInv, Places
    <3>2. \E n \in Nodes : Trace[n] = "failed"
      BY <2>4 DEF FallbackReturns, FallbackRaises, GraphInv, Places, Trace, Status
    <3>3. Dataflow!EndOtherwise
      BY <2>0, <3>1, <3>2 DEF Dataflow!EndOtherwise, Trace
    <3> QED
      BY <3>3 DEF Dataflow!Next
  <2> QED
    BY <1>3, <2>1, <2>2, <2>3, <2>4 DEF VerdictStep
<1>4. CASE ExecutorRaises
  <2>1. run = "running" /\ run' = "failed" /\ UNCHANGED <<flow, rows, out>>
    BY <1>4 DEF ExecutorRaises, Verdict, GraphInv, Places, given, memory
  <2>2. Dataflow!EndOtherwise
    BY <2>1 DEF Dataflow!EndOtherwise
  <2> QED
    BY <2>2 DEF Dataflow!Next
<1>5. CASE Abandoned
  <2>1. UNCHANGED <<flow, rows, out, run>>
    BY <1>5 DEF Abandoned, given, memory
  <2> QED
    BY <2>1, Stutters
<1>6. ASSUME NEW n \in Nodes, Act(n) PROVE UNCHANGED Dataflow!vars
  <2>1. UNCHANGED <<flow, rows, out, run>>
    BY <1>6 DEF Act, given, memory
  <2> QED
    BY <2>1, Stutters
<1>7. ASSUME NEW n \in Nodes, NodeSucceeds(n) PROVE Dataflow!Next
  <2>1. /\ run = "running" /\ Status(n) = "running" /\ UNCHANGED <<flow, run>>
    BY <1>7 DEF NodeSucceeds, GraphInv, Places, Running, Status, given
  <2>2. Trace' = [Trace EXCEPT ![n] = "succeeded"]
    <3>1. \A m \in Nodes : rows'[m].status = IF m = n THEN "succeeded" ELSE rows[m].status
      BY <1>0, <1>7 DEF NodeSucceeds, TypeOK, NodeRow
    <3> QED
      BY <3>1 DEF Trace
  <2>3. PICK ports \in OutputPorts(flow.kind[n]) : out' = [out EXCEPT ![n] = ports]
    BY <1>7 DEF NodeSucceeds
  <2>4. ports \in SUBSET Ports
    BY <2>3, GraphAssumption DEF OutputPorts
  <2>5. Dataflow!Succeed(n, ports)
    BY <2>1, <2>2, <2>3 DEF Dataflow!Succeed, Trace, Status
  <2> QED
    BY <2>4, <2>5 DEF Dataflow!Next
<1>8. ASSUME NEW n \in Nodes, NodeFails(n) \/ NodeRaises(n) PROVE Dataflow!Next
  <2>1. /\ run = "running" /\ Status(n) = "running" /\ UNCHANGED <<flow, run, out>>
    BY <1>8 DEF NodeFails, NodeRaises, Failure, GraphInv, Places, Running, Status, given
  <2>2. Trace' = [Trace EXCEPT ![n] = "failed"]
    <3>1. PICK error \in {"reported", "raised"} :
              rows' = [rows EXCEPT ![n].status = "failed", ![n].error = error]
      BY <1>8 DEF NodeFails, NodeRaises, Failure
    <3>2. \A m \in Nodes : rows'[m].status = IF m = n THEN "failed" ELSE rows[m].status
      BY <1>0, <3>1 DEF TypeOK, NodeRow
    <3> QED
      BY <3>2 DEF Trace
  <2>3. Dataflow!Fail(n)
    BY <2>1, <2>2 DEF Dataflow!Fail, Trace, Status
  <2> QED
    BY <2>3 DEF Dataflow!Next
<1>9. ASSUME NEW e \in TopEdges, EdgeStep(e) PROVE Dataflow!Next \/ UNCHANGED Dataflow!vars
  <2>0. place = "looping" /\ UNCHANGED <<flow, out, run>>
    BY <1>9 DEF EdgeStep, EdgeResolved, TargetReady, TargetSkipped, given
  <2>1. CASE EdgeResolved(e) \/ TargetReady(e)
    <3>1. rows' = rows
      BY <2>1 DEF EdgeResolved, TargetReady
    <3> QED
      BY <2>0, <3>1, Stutters
  <2>2. CASE TargetSkipped(e)
    <3> DEFINE t == e.target
    <3>1. /\ t \in Nodes /\ Status(t) = "pending"
          /\ ResolvedTo(t) \cup {e} = Incoming(t) /\ DeliveredTo(t) = {}
          /\ e.port \notin out[e.source] /\ e \in flow.edges /\ Final(e.source)
          /\ \A n \in Nodes : rows'[n].status = IF n = t THEN "skipped" ELSE rows[n].status
      BY <2>2, SkipEffect
    <3> HIDE DEF t
    <3>2. \A d \in Incoming(t) : Final(d.source) /\ d.port \notin out[d.source]
      BY <3>1 DEF ResolvedTo, DeliveredTo, Resolved
    <3>3. Dataflow!Due(t) /\ ~Dataflow!Wanted(t)
      <4>1. Incoming(t) # {}
        BY <3>1
      <4> QED
        BY <2>0, <3>1, <3>2, <4>1, MappedDue
    <3>4. Trace' = [Trace EXCEPT ![t] = "skipped"]
      BY <3>1 DEF Trace
    <3>5. Dataflow!Skip(t)
      BY <2>0, <3>3, <3>4 DEF Dataflow!Skip, Trace
    <3> QED
      BY <3>1, <3>5 DEF Dataflow!Next
  <2> QED
    BY <1>9, <2>1, <2>2 DEF EdgeStep
<1>10. CASE UNCHANGED vars
  BY <1>10, Stutters DEF vars
<1> QED
  BY <1>1, <1>2, <1>3, <1>4, <1>5, <1>6, <1>7, <1>8, <1>9, <1>10 DEF Next, NodeStep

\* For every flow: the executor implements the dataflow.
THEOREM ExecutorRunsTheDataflow == Spec => RunsTheDataflow
  BY GraphInit, GraphNext, DataflowInit, DataflowNext, PTL DEF Spec, RunsTheDataflow, Dataflow!Spec
=============================================================================
