--------------------------- MODULE VerdictProofs ---------------------------
(***************************************************************************)
(* Facts of the derivation that hold for every form of seven scores and    *)
(* every contract, proved.                                                 *)
(***************************************************************************)
EXTENDS Verdict, TLAPS

\* Scores a form may carry are left alone by the clamp.
LEMMA CleanedScores ==
    ASSUME NEW scores \in Scores
    PROVE  Cleaned(scores) = scores
<1>1. \A p \in PROPERTIES : ClampScore(scores[p]) = scores[p]
  BY DEF Scores, ClampScore
<1> QED BY <1>1 DEF Cleaned, Scores

\* The seven scores, one by one.
LEMMA SevenScores ==
    ASSUME NEW scores \in Scores
    PROVE  /\ scores["verifiability"] \in 1..5 /\ scores["evidence"] \in 1..5
           /\ scores["reversibility"] \in 1..5 /\ scores["determinism"] \in 1..5
           /\ scores["impact_scope"] \in 1..5 /\ scores["compliance"] \in 1..5
           /\ scores["tacitness"] \in 1..5
  BY DEF Scores, PROPERTIES

LEMMA MeanInRange ==
    ASSUME NEW scores \in Scores
    PROVE  MeanScore(scores) \in 7..35
  BY SevenScores DEF MeanScore

\* The bands follow the value upwards.
LEMMA BandMonotone ==
    ASSUME NEW j \in Int, NEW k \in Int, j <= k
    PROVE  /\ BandForValue(j) \in 1..5
           /\ BandForValue(j) <= BandForValue(k)
<1>1. BandForValue(j) = IF j < 14 THEN 1 ELSE IF 4 * j < 77 THEN 2 ELSE IF 2 * j < 49 THEN 3
                        ELSE IF 4 * j < 119 THEN 4 ELSE 5
  BY DEF BandForValue
<1>2. BandForValue(k) = IF k < 14 THEN 1 ELSE IF 4 * k < 77 THEN 2 ELSE IF 2 * k < 49 THEN 3
                        ELSE IF 4 * k < 119 THEN 4 ELSE 5
  BY DEF BandForValue
<1> QED BY <1>1, <1>2

LEMMA LevelMonotone ==
    ASSUME NEW scores \in Scores, NEW j \in Int, NEW k \in Int, j <= k
    PROVE  /\ LevelAt(scores, j) \in Levels
           /\ LevelAt(scores, j) <= LevelAt(scores, k)
<1>1. Deterministic(scores, j) => Deterministic(scores, k)
  BY SevenScores DEF Deterministic
<1>2. BandForValue(j) \in 1..5 /\ BandForValue(k) \in 1..5 /\ BandForValue(j) <= BandForValue(k)
  BY BandMonotone
<1> QED BY <1>1, <1>2 DEF LevelAt, Levels

\* The caps of the gates.
LEMMA GateCaps == /\ GATE_CAPS["gate1_regulatory"] = 2
                  /\ GATE_CAPS["gate2_reversibility"] = 3
                  /\ GATE_CAPS["gate3_impact"] = 3
                  /\ GATE_CAPS["gate4_evidence"] = 2
  BY DEF GATE_CAPS, Gates

\* The walk over the four gates, by its outcome.
LEMMA LiveCapCases ==
    ASSUME NEW scores \in Scores, NEW licensed \in BOOLEAN, NEW evidencePath \in BOOLEAN
    PROVE  LiveCap(scores, licensed, evidencePath) =
              IF scores["compliance"] = 1 \/ licensed \/ ~evidencePath \/ scores["evidence"] = 1
              THEN 2
              ELSE IF scores["reversibility"] = 1 \/ scores["impact_scope"] = 1 THEN 3 ELSE 6
  BY GateCaps DEF LiveCap, Smaller

\* The live cap and the cap replayed from the gates it left are the same.
LEMMA CapReplay ==
    ASSUME NEW scores \in Scores, NEW licensed \in BOOLEAN, NEW evidencePath \in BOOLEAN
    PROVE  CapFromAppliedGates(AppliedGates(scores, licensed, evidencePath))
              = LiveCap(scores, licensed, evidencePath)
<1> DEFINE G == AppliedGates(scores, licensed, evidencePath)
           C == LiveCap(scores, licensed, evidencePath)
           S == {6} \cup {GATE_CAPS[g] : g \in G}
<1>1. \A g \in G : GATE_CAPS[g] = IF g \in {"gate1_regulatory", "gate4_evidence"} THEN 2 ELSE 3
  BY DEF AppliedGates, GATE_CAPS
<1>2. /\ "gate1_regulatory" \in G <=> (scores["compliance"] = 1 \/ licensed)
      /\ "gate4_evidence" \in G <=> (~evidencePath \/ scores["evidence"] = 1)
      /\ "gate2_reversibility" \in G <=> scores["reversibility"] = 1
      /\ "gate3_impact" \in G <=> scores["impact_scope"] = 1
      /\ G \subseteq Gates
  BY DEF AppliedGates, Gates
<1>3. C \in S /\ \A d \in S : C <= d
  <2>1. CASE "gate1_regulatory" \in G \/ "gate4_evidence" \in G
    <3>1. C = 2
      BY <1>2, <2>1, LiveCapCases
    <3>2. 2 \in S
      BY <1>1, <2>1
    <3> QED BY <1>1, <3>1, <3>2
  <2>2. CASE /\ "gate1_regulatory" \notin G /\ "gate4_evidence" \notin G
             /\ "gate2_reversibility" \in G \/ "gate3_impact" \in G
    <3>1. C = 3
      BY <1>2, <2>2, LiveCapCases
    <3>2. 3 \in S
      BY <1>1, <2>2
    <3> QED BY <1>1, <2>2, <3>1, <3>2
  <2>3. CASE G = {}
    BY <1>2, <2>3, LiveCapCases
  <2> QED BY <1>2, <2>1, <2>2, <2>3 DEF Gates
<1>4. \A d \in S : d \in Int
  BY <1>1
<1>5. CapFromAppliedGates(G) = CHOOSE c \in S : \A d \in S : c <= d
  BY DEF CapFromAppliedGates
<1> HIDE DEF S, C
<1>6. \A c \in S : (\A d \in S : c <= d) => c = C
  BY <1>3, <1>4
<1> QED BY <1>3, <1>5, <1>6 DEF C

LEMMA LiveCapValues ==
    ASSUME NEW scores \in Scores, NEW licensed \in BOOLEAN, NEW evidencePath \in BOOLEAN
    PROVE  LiveCap(scores, licensed, evidencePath) \in {2, 3, 6}
  BY LiveCapCases

\* A derivation is a row: its scores are the form's, its level is a level.
THEOREM DerivedRow ==
    ASSUME NEW scores \in Scores, NEW licensed \in BOOLEAN, NEW evidencePath \in BOOLEAN
    PROVE  DeriveAutonomy(scores, licensed, evidencePath)
              \in [scores : Scores, recommended : Levels, gates : SUBSET Gates]
<1>1. BaseLevel(scores) \in Levels
  BY MeanInRange, LevelMonotone DEF BaseLevel
<1>2. ApplyHardGates(BaseLevel(scores), scores, licensed, evidencePath) \in Levels
  BY <1>1, LiveCapValues DEF ApplyHardGates, Smaller, Levels
<1>3. AppliedGates(scores, licensed, evidencePath) \in SUBSET Gates
  BY DEF AppliedGates
<1> QED BY <1>2, <1>3, CleanedScores DEF DeriveAutonomy

-----------------------------------------------------------------------------
LEMMA LowestIsLeast ==
    ASSUME NEW scores \in Scores
    PROVE  /\ LowestScore(scores) \in 1..5
           /\ \A p \in PROPERTIES : LowestScore(scores) <= scores[p]
<1>1. \A p \in PROPERTIES : scores[p] \in 1..5
  BY DEF Scores
<1>2. \E v \in 1..5 : (\E p \in PROPERTIES : scores[p] = v) /\ \A p \in PROPERTIES : v <= scores[p]
  <2>1. CASE \E p \in PROPERTIES : scores[p] = 1
    BY <1>1, <2>1
  <2>2. CASE (\E p \in PROPERTIES : scores[p] = 2) /\ (\A p \in PROPERTIES : scores[p] # 1)
    BY <1>1, <2>2
  <2>3. CASE (\E p \in PROPERTIES : scores[p] = 3) /\ (\A p \in PROPERTIES : scores[p] \notin {1, 2})
    BY <1>1, <2>3
  <2>4. CASE (\E p \in PROPERTIES : scores[p] = 4) /\ (\A p \in PROPERTIES : scores[p] \notin {1, 2, 3})
    BY <1>1, <2>4
  <2>5. CASE \A p \in PROPERTIES : scores[p] = 5
    BY <2>5 DEF PROPERTIES
  <2> QED BY <1>1, <2>1, <2>2, <2>3, <2>4, <2>5
<1> QED BY <1>2 DEF LowestScore

LEMMA HighestIsGreatest ==
    ASSUME NEW scores \in Scores
    PROVE  /\ HighestScore(scores) \in 1..5
           /\ \A p \in PROPERTIES : scores[p] <= HighestScore(scores)
<1>1. \A p \in PROPERTIES : scores[p] \in 1..5
  BY DEF Scores
<1>2. \E v \in 1..5 : (\E p \in PROPERTIES : scores[p] = v) /\ \A p \in PROPERTIES : scores[p] <= v
  <2>1. CASE \E p \in PROPERTIES : scores[p] = 5
    BY <1>1, <2>1
  <2>2. CASE (\E p \in PROPERTIES : scores[p] = 4) /\ (\A p \in PROPERTIES : scores[p] # 5)
    BY <1>1, <2>2
  <2>3. CASE (\E p \in PROPERTIES : scores[p] = 3) /\ (\A p \in PROPERTIES : scores[p] \notin {4, 5})
    BY <1>1, <2>3
  <2>4. CASE (\E p \in PROPERTIES : scores[p] = 2) /\ (\A p \in PROPERTIES : scores[p] \notin {3, 4, 5})
    BY <1>1, <2>4
  <2>5. CASE \A p \in PROPERTIES : scores[p] = 1
    BY <2>5 DEF PROPERTIES
  <2> QED BY <1>1, <2>1, <2>2, <2>3, <2>4, <2>5
<1> QED BY <1>2 DEF HighestScore

\* The mean lies between the lowest and the highest score.
LEMMA MeanBetween ==
    ASSUME NEW scores \in Scores
    PROVE  /\ 7 * LowestScore(scores) <= MeanScore(scores)
           /\ MeanScore(scores) <= 7 * HighestScore(scores)
<1>1. /\ "verifiability" \in PROPERTIES /\ "evidence" \in PROPERTIES
      /\ "reversibility" \in PROPERTIES /\ "determinism" \in PROPERTIES
      /\ "impact_scope" \in PROPERTIES /\ "compliance" \in PROPERTIES
      /\ "tacitness" \in PROPERTIES
  BY DEF PROPERTIES
<1> QED BY <1>1, SevenScores, LowestIsLeast, HighestIsGreatest DEF MeanScore

\* Every derivation, whatever the scores and the contract, yields a scenario
\* strip in order: careful <= as calculated <= ambitious <= cap, and the level
\* as calculated is the recommendation itself.
THEOREM StripInOrder ==
    ASSUME NEW scores \in Scores, NEW licensed \in BOOLEAN, NEW evidencePath \in BOOLEAN
    PROVE  LET row == DeriveAutonomy(scores, licensed, evidencePath)
           IN  /\ ScenarioMonotonic(ScenarioLevels(row))
               /\ ScenarioLevels(row).asCalculated = row.recommended
<1> DEFINE row == DeriveAutonomy(scores, licensed, evidencePath)
           cap == LiveCap(scores, licensed, evidencePath)
           low == LevelAt(scores, 7 * LowestScore(scores))
           mid == LevelAt(scores, MeanScore(scores))
           high == LevelAt(scores, 7 * HighestScore(scores))
<1>1. Cleaned(scores) = scores
  BY CleanedScores
<1>2. /\ row.scores = scores
      /\ row.recommended = Smaller(mid, cap)
      /\ CapFromAppliedGates(row.gates) = cap
  BY <1>1, CapReplay DEF DeriveAutonomy, ApplyHardGates, BaseLevel
<1>3. /\ low \in Levels /\ mid \in Levels /\ high \in Levels
      /\ low <= mid /\ mid <= high
  <2>1. 7 * LowestScore(scores) \in Int /\ 7 * HighestScore(scores) \in Int
    BY LowestIsLeast, HighestIsGreatest
  <2>2. MeanScore(scores) \in Int
    BY MeanInRange
  <2> QED BY <2>1, <2>2, MeanBetween, LevelMonotone
<1>4. ScenarioLevels(row) = [careful |-> Smaller(low, cap),
                             asCalculated |-> Smaller(Smaller(mid, cap), cap),
                             ambitious |-> Smaller(high, cap), cap |-> cap]
  BY <1>1, <1>2 DEF ScenarioLevels
<1>5. cap \in {2, 3, 6}
  BY LiveCapValues
<1>6. ScenarioMonotonic(ScenarioLevels(row)) /\ ScenarioLevels(row).asCalculated = row.recommended
  <2> HIDE DEF row, cap, low, mid, high
  <2> QED BY <1>2, <1>3, <1>4, <1>5 DEF ScenarioMonotonic, Smaller, Levels
<1> QED BY <1>6
=============================================================================
