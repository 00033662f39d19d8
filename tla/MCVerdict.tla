----------------------------- MODULE MCVerdict -----------------------------
(***************************************************************************)
(* Exhaustive check of Verdict: a state is one scoring form with the two   *)
(* contract facts the gates read, and a step edits the form, one point of  *)
(* one score at a time, or one contract fact.                              *)
(***************************************************************************)
EXTENDS DeskStrip

CONSTANT FormScores \* the values of a score the run enumerates

ASSUME FormScoresAssumption == FormScores \subseteq 1..5

VARIABLES scores, licensed, evidencePath

vars == <<scores, licensed, evidencePath>>

Derived == DeriveAutonomy(scores, licensed, evidencePath)

Init == /\ scores \in [PROPERTIES -> FormScores]
        /\ licensed \in BOOLEAN
        /\ evidencePath \in BOOLEAN

RaiseScore(p) == /\ scores[p] + 1 \in FormScores
                 /\ scores' = [scores EXCEPT ![p] = @ + 1]
                 /\ UNCHANGED <<licensed, evidencePath>>

LinkLicence == /\ ~licensed
               /\ licensed' = TRUE
               /\ UNCHANGED <<scores, evidencePath>>

BlankEvidence == /\ evidencePath
                 /\ evidencePath' = FALSE
                 /\ UNCHANGED <<scores, licensed>>

Next == (\E p \in PROPERTIES : RaiseScore(p)) \/ LinkLicence \/ BlankEvidence

Spec == Init /\ [][Next]_vars

-----------------------------------------------------------------------------
\* verdict.py:114-152, offerDeskScenarios.ts:46-135.  The cap replayed from the stored
\* gate list is the cap that was applied when the unit was scored, so the stored
\* recommendation already lies under it; and the page's own arithmetic draws the
\* strip of the backend for it, levels and allocations, at every band and gate.
CapReplayAgrees ==
    /\ CapFromAppliedGates(Derived.gates) = LiveCap(Derived.scores, licensed, evidencePath)
    /\ ScenarioLevels(Derived).asCalculated = Derived.recommended
    /\ DeskScenarioStrip(Derived, AllocationFor(Derived.recommended, "human")) = BackendStrip(Derived, "human")

\* The lint the hand-off bundle runs on the strip holds for every row that one
\* derivation wrote: careful <= as calculated <= ambitious <= cap.
StripMonotonic == ScenarioMonotonic(ScenarioLevels(Derived))

\* Raising a score never lowers the recommendation, and tightening a contract
\* fact never raises it.
Monotone == [][/\ licensed' = licensed /\ evidencePath' = evidencePath
                  => Derived'.recommended >= Derived.recommended
               /\ scores' = scores => Derived'.recommended <= Derived.recommended]_vars
=============================================================================
