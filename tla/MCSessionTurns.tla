--------------------------- MODULE MCSessionTurns ---------------------------
(***************************************************************************)
(* Instances of SessionTurns for TLC: the constants are model values,      *)
(* given in the configurations.                                            *)
(***************************************************************************)
EXTENDS SessionTurns

\* Requests are interchangeable: it matters how many carry a key.
OneForEachNumber ==
    LET keyed(n) == CHOOSE rs \in SUBSET Requests : Cardinality(rs) = n
    IN  {[r \in Requests |-> IF r \in keyed(n) THEN CHOOSE k \in Keys : TRUE ELSE NoKey]
            : n \in 0..Cardinality(Requests)}

WithoutKeys == [Requests -> {NoKey}]
=============================================================================
