-------------------------- MODULE MCAutonomyLadder --------------------------
(***************************************************************************)
(* Values for the constants of AutonomyLadder.                             *)
(***************************************************************************)
EXTENDS AutonomyLadder

Uniform(v) == [p \in PROPERTIES |-> v]

\* L6; L3 with no gate; L3 whose impact gate holds it there; L1.
SerialScorings == {Uniform(5), Uniform(3), [Uniform(4) EXCEPT !["impact_scope"] = 1]}

\* Rows that differ from one another in some columns and agree in others.
RaceScorings == {Uniform(4), Uniform(1),
                 [p \in PROPERTIES |-> IF p \in {"evidence", "impact_scope", "tacitness"} THEN 3 ELSE 5]}

OneScoring == {Uniform(5)}

StrongAndWeak == {Uniform(5), Uniform(1)}

FullContract == [evidence |-> TRUE, licensed |-> FALSE, complete |-> TRUE]

OnlyFull == {FullContract}

WithAndWithoutEvidence == {FullContract, [FullContract EXCEPT !.evidence = FALSE]}

AllContracts == ContractFacts
=============================================================================
