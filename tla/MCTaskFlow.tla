----------------------------- MODULE MCTaskFlow -----------------------------
(* Instances of TaskFlow for TLC.  t3 outranks t1 and t2. *)
EXTENDS TaskFlow, TLC

CONSTANTS t1, t2, t3, w1, w2, e1, e2

MCPriority == [t \in Tasks |-> IF t = t3 THEN 9 ELSE 5]

WorkerSymmetry == Permutations(Workers)
EmployeeSymmetry == Permutations(Workers) \cup Permutations(Employees)
=============================================================================
