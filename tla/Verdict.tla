------------------------------ MODULE Verdict ------------------------------
(***************************************************************************)
(* services/verdict.py: seven scores -> an autonomy level.  Everything is  *)
(* a pure operator.  A value is kept in sevenths, so that the mean is the  *)
(* plain sum of the seven scores and an integer score v is 7 * v; the      *)
(* comparisons below are the source's, multiplied out.                     *)
(***************************************************************************)
EXTENDS Integers

PROPERTIES == {"verifiability", "evidence", "reversibility", "determinism",
               "impact_scope", "compliance", "tacitness"}

Levels == 1..6

Scores == [PROPERTIES -> 1..5]

Smaller(a, b) == IF a < b THEN a ELSE b

ClampScore(v) == IF v < 1 THEN 1 ELSE IF v > 5 THEN 5 ELSE v

Cleaned(scores) == [p \in PROPERTIES |-> ClampScore(scores[p])]

\* The mean, in sevenths.
MeanScore(scores) ==
    scores["verifiability"] + scores["evidence"] + scores["reversibility"]
      + scores["determinism"] + scores["impact_scope"] + scores["compliance"]
      + scores["tacitness"]

\* value < 2.0, 2.75, 3.5, 4.25, with value = k / 7.
BandForValue(k) == CASE k < 14 -> 1
                     [] k >= 14 /\ 4 * k < 77 -> 2
                     [] 4 * k >= 77 /\ 2 * k < 49 -> 3
                     [] 2 * k >= 49 /\ 4 * k < 119 -> 4
                     [] 4 * k >= 119 -> 5

\* Mutant: tacitness read the wrong way round.
DeterministicTacit(scores, k) == /\ scores["determinism"] = 5
                                 /\ scores["verifiability"] >= 4
                                 /\ scores["tacitness"] <= 2
                                 /\ 2 * k >= 63

\* L6: fully deterministic, verifiable, tacit, and value >= 4.5.
Deterministic(scores, k) == /\ scores["determinism"] = 5
                            /\ scores["verifiability"] >= 4
                            /\ scores["tacitness"] >= 4
                            /\ 2 * k >= 63

LevelAt(scores, k) == IF Deterministic(scores, k) THEN 6 ELSE BandForValue(k)

BaseLevel(scores) == LevelAt(scores, MeanScore(scores))

-----------------------------------------------------------------------------
Gates == {"gate1_regulatory", "gate2_reversibility", "gate3_impact", "gate4_evidence"}

\* Mutant: the evidence gate listed with the cap of the scored gates.
GateCapsLoose == [g \in Gates |-> IF g = "gate1_regulatory" THEN 2 ELSE 3]

GATE_CAPS == [g \in Gates |-> IF g \in {"gate1_regulatory", "gate4_evidence"} THEN 2 ELSE 3]

\* Mutant: a missing evidence path lowers the cap but is not listed.
AppliedGatesScoresOnly(scores, licensed, evidencePath) ==
    {g \in Gates :
        \/ g = "gate1_regulatory" /\ (scores["compliance"] = 1 \/ licensed)
        \/ g = "gate2_reversibility" /\ scores["reversibility"] = 1
        \/ g = "gate3_impact" /\ scores["impact_scope"] = 1
        \/ g = "gate4_evidence" /\ scores["evidence"] = 1}

\* The gates that fire on live scores and contract facts.
AppliedGates(scores, licensed, evidencePath) ==
    {g \in Gates :
        \/ g = "gate1_regulatory" /\ (scores["compliance"] = 1 \/ licensed)
        \/ g = "gate2_reversibility" /\ scores["reversibility"] = 1
        \/ g = "gate3_impact" /\ scores["impact_scope"] = 1
        \/ g = "gate4_evidence" /\ (~evidencePath \/ scores["evidence"] = 1)}

\* The running minimum apply_hard_gates keeps while it walks the four gates.
LiveCap(scores, licensed, evidencePath) ==
    LET Under(cap, fires, gate) == IF fires THEN Smaller(cap, GATE_CAPS[gate]) ELSE cap
        regulatory == Under(6, scores["compliance"] = 1 \/ licensed, "gate1_regulatory")
        reversibility == Under(regulatory, scores["reversibility"] = 1, "gate2_reversibility")
        impact == Under(reversibility, scores["impact_scope"] = 1, "gate3_impact")
    IN  Under(impact, ~evidencePath \/ scores["evidence"] = 1, "gate4_evidence")

ApplyHardGates(level, scores, licensed, evidencePath) ==
    Smaller(level, LiveCap(scores, licensed, evidencePath))

\* The replay of GATE_CAPS from a persisted list of gates.
CapFromAppliedGates(gates) ==
    CHOOSE c \in {6} \cup {GATE_CAPS[g] : g \in gates} :
        \A d \in {6} \cup {GATE_CAPS[g] : g \in gates} : c <= d

DeriveAutonomy(scores, licensed, evidencePath) ==
    LET cleaned == Cleaned(scores)
    IN  [scores |-> cleaned,
         recommended |-> ApplyHardGates(BaseLevel(cleaned), cleaned, licensed, evidencePath),
         gates |-> AppliedGates(cleaned, licensed, evidencePath)]

-----------------------------------------------------------------------------
\* The scenario strip: floor, derived and ceiling, all under the replayed cap.
LowestScore(scores) ==
    CHOOSE v \in 1..5 : (\E p \in PROPERTIES : scores[p] = v) /\ \A p \in PROPERTIES : v <= scores[p]

HighestScore(scores) ==
    CHOOSE v \in 1..5 : (\E p \in PROPERTIES : scores[p] = v) /\ \A p \in PROPERTIES : scores[p] <= v

\* Mutant: the careful level is not put under the cap.
ScenarioLevelsBareFloor(row) ==
    LET cleaned == Cleaned(row.scores)
        cap == CapFromAppliedGates(row.gates)
    IN  [careful |-> LevelAt(cleaned, 7 * LowestScore(cleaned)),
         asCalculated |-> Smaller(row.recommended, cap),
         ambitious |-> Smaller(LevelAt(cleaned, 7 * HighestScore(cleaned)), cap),
         cap |-> cap]

ScenarioLevels(row) ==
    LET cleaned == Cleaned(row.scores)
        cap == CapFromAppliedGates(row.gates)
    IN  [careful |-> Smaller(LevelAt(cleaned, 7 * LowestScore(cleaned)), cap),
         asCalculated |-> Smaller(row.recommended, cap),
         ambitious |-> Smaller(LevelAt(cleaned, 7 * HighestScore(cleaned)), cap),
         cap |-> cap]

\* services/invariants.py::assert_scenario_monotonic.
ScenarioMonotonic(strip) == /\ strip.careful <= strip.asCalculated
                            /\ strip.asCalculated <= strip.ambitious
                            /\ strip.ambitious <= strip.cap

AllocationFor(level, actorType) ==
    CASE actorType = "external" -> "buy"
      [] actorType # "external" /\ level >= 6 -> "automate"
      [] actorType # "external" /\ level \in 3..5 -> "agent"
      [] OTHER -> "make"
=============================================================================
