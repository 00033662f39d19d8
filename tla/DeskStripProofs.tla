--------------------------- MODULE DeskStripProofs ---------------------------
(***************************************************************************)
(* What the run of MCVerdict checks form by form, proved for every set of  *)
(* forms: the replayed cap, the two strips and the order of the levels.    *)
(***************************************************************************)
EXTENDS MCVerdict, VerdictProofs

Typed == scores \in [PROPERTIES -> FormScores] /\ licensed \in BOOLEAN /\ evidencePath \in BOOLEAN

LEMMA TypedForm == Typed => scores \in Scores
  BY FormScoresAssumption DEF Typed, Scores

LEMMA TypedInit == Init => Typed
  BY DEF Init, Typed

LEMMA TypedStep == Typed /\ [Next]_vars => Typed'
<1> SUFFICES ASSUME Typed, [Next]_vars PROVE Typed'
  OBVIOUS
<1>1. ASSUME NEW p \in PROPERTIES, RaiseScore(p) PROVE Typed'
  BY <1>1 DEF RaiseScore, Typed
<1>2. CASE LinkLicence \/ BlankEvidence \/ UNCHANGED vars
  BY <1>2 DEF LinkLicence, BlankEvidence, vars, Typed
<1> QED BY <1>1, <1>2 DEF Next

-----------------------------------------------------------------------------
(* The page's arithmetic beside the backend's.                             *)

LEMMA SameBands == ASSUME NEW k \in Int PROVE DeskBands(k) = BandForValue(k)
<1>1. BandForValue(k) = IF k < 14 THEN 1 ELSE IF 4 * k < 77 THEN 2 ELSE IF 2 * k < 49 THEN 3
                        ELSE IF 4 * k < 119 THEN 4 ELSE 5
  BY DEF BandForValue
<1> QED BY <1>1 DEF DeskBands

LEMMA SameLevels ==
  ASSUME NEW form \in Scores, NEW k \in Int
  PROVE  DeskBaseLevel(form, k) = LevelAt(form, k)
  BY SameBands DEF DeskBaseLevel, LevelAt, Deterministic

LEMMA SameCaps == ASSUME NEW gates \in SUBSET Gates PROVE DeskCap(gates) = CapFromAppliedGates(gates)
<1>1. DOMAIN DeskCaps = Gates
  BY DEF DeskCaps, Gates
<1>2. \A g \in Gates : DeskCaps[g] = GATE_CAPS[g]
  BY DEF DeskCaps, GATE_CAPS, Gates
<1>3. {DeskCaps[g] : g \in gates \cap DOMAIN DeskCaps} = {GATE_CAPS[g] : g \in gates}
  BY <1>1, <1>2
<1> QED BY <1>3 DEF DeskCap, CapFromAppliedGates

LEMMA SameAllocation ==
  ASSUME NEW level \in Levels
  PROVE  DeskAllocation(level) = AllocationFor(level, "human")
<1>1. CASE level = 6
  BY <1>1 DEF DeskAllocation, AllocationFor
<1>2. CASE level \in 3..5
  BY <1>2 DEF DeskAllocation, AllocationFor
<1>3. CASE level \in 1..2
  BY <1>3 DEF DeskAllocation, AllocationFor
<1> QED BY <1>1, <1>2, <1>3 DEF Levels

\* One derived row, drawn by the page and by the backend.
LEMMA SameStrips ==
  ASSUME NEW form \in Scores, NEW bound \in BOOLEAN, NEW path \in BOOLEAN
  PROVE  LET row == DeriveAutonomy(form, bound, path)
         IN  DeskScenarioStrip(row, AllocationFor(row.recommended, "human")) = BackendStrip(row, "human")
<1> DEFINE row == DeriveAutonomy(form, bound, path)
           cap == LiveCap(form, bound, path)
           low == LevelAt(form, 7 * LowestScore(form))
           high == LevelAt(form, 7 * HighestScore(form))
<1>1. Cleaned(form) = form
  BY CleanedScores
<1>2. row.scores = form /\ row.gates = AppliedGates(form, bound, path) /\ row.recommended \in Levels
  BY <1>1, DerivedRow DEF DeriveAutonomy
<1>3. CapFromAppliedGates(row.gates) = cap /\ DeskCap(row.gates) = cap
  <2>1. AppliedGates(form, bound, path) \in SUBSET Gates
    BY DEF AppliedGates
  <2> QED BY <1>2, <2>1, SameCaps, CapReplay
<1>4. ScenarioLevels(row).asCalculated = row.recommended
  BY StripInOrder
<1>5. 7 * LowestScore(form) \in Int /\ 7 * HighestScore(form) \in Int
  BY LowestIsLeast, HighestIsGreatest
<1>6. /\ DeskBaseLevel(form, 7 * LowestScore(form)) = low
      /\ DeskBaseLevel(form, 7 * HighestScore(form)) = high
  BY <1>5, SameLevels
<1>7. ScenarioLevels(row).careful = Smaller(low, cap) /\ ScenarioLevels(row).ambitious = Smaller(high, cap)
  BY <1>1, <1>2, <1>3 DEF ScenarioLevels
<1>8. Smaller(low, cap) \in Levels /\ Smaller(high, cap) \in Levels
  <2>1. low \in Levels /\ high \in Levels
    BY <1>5, LevelMonotone
  <2>2. cap \in Levels
    BY LiveCapValues DEF Levels
  <2> QED BY <2>1, <2>2 DEF Smaller
<1>9. DeskScenarioStrip(row, AllocationFor(row.recommended, "human")) =
        [s1Floor |-> DeskPoint(Smaller(low, cap)),
         s2Derived |-> [level |-> row.recommended, allocation |-> AllocationFor(row.recommended, "human")],
         s3Ceiling |-> DeskPoint(Smaller(high, cap))]
  BY <1>2, <1>3, <1>6 DEF DeskScenarioStrip
<1>10. BackendStrip(row, "human") =
        [s1Floor |-> [level |-> Smaller(low, cap), allocation |-> AllocationFor(Smaller(low, cap), "human")],
         s2Derived |-> [level |-> row.recommended, allocation |-> AllocationFor(row.recommended, "human")],
         s3Ceiling |-> [level |-> Smaller(high, cap), allocation |-> AllocationFor(Smaller(high, cap), "human")]]
  BY <1>4, <1>7 DEF BackendStrip
<1>11. /\ DeskPoint(Smaller(low, cap))
             = [level |-> Smaller(low, cap), allocation |-> AllocationFor(Smaller(low, cap), "human")]
       /\ DeskPoint(Smaller(high, cap))
             = [level |-> Smaller(high, cap), allocation |-> AllocationFor(Smaller(high, cap), "human")]
  BY <1>8, SameAllocation DEF DeskPoint
<1> QED BY <1>9, <1>10, <1>11

\* The cap replayed from the stored gates is the cap of the derivation, and the
\* page draws the backend's strip, for every form and contract.
THEOREM CapReplayAgreesAlways == Spec => []CapReplayAgrees
<1>1. Typed => CapReplayAgrees
  <2> SUFFICES ASSUME Typed PROVE CapReplayAgrees
    OBVIOUS
  <2>1. scores \in Scores /\ licensed \in BOOLEAN /\ evidencePath \in BOOLEAN
    BY TypedForm DEF Typed
  <2>2. Derived.gates = AppliedGates(scores, licensed, evidencePath)
    BY <2>1, CleanedScores DEF Derived, DeriveAutonomy
  <2>3. CapFromAppliedGates(Derived.gates) = LiveCap(Derived.scores, licensed, evidencePath)
    <3>1. Derived.scores = scores
      BY <2>1, CleanedScores DEF Derived, DeriveAutonomy
    <3> QED BY <2>1, <2>2, <3>1, CapReplay
  <2>4. ScenarioLevels(Derived).asCalculated = Derived.recommended
    BY <2>1, StripInOrder DEF Derived
  <2>5. DeskScenarioStrip(Derived, AllocationFor(Derived.recommended, "human")) = BackendStrip(Derived, "human")
    BY <2>1, SameStrips DEF Derived
  <2> QED BY <2>3, <2>4, <2>5 DEF CapReplayAgrees
<1> QED BY <1>1, TypedInit, TypedStep, PTL DEF Spec

\* careful <= as calculated <= ambitious <= cap, for every form and contract.
THEOREM StripMonotonicAlways == Spec => []StripMonotonic
<1>1. Typed => StripMonotonic
  BY TypedForm, StripInOrder DEF Typed, StripMonotonic, Derived
<1> QED BY <1>1, TypedInit, TypedStep, PTL DEF Spec

-----------------------------------------------------------------------------
(* Editing a form.                                                         *)

LEMMA RecommendedLevel ==
  ASSUME NEW form \in Scores, NEW bound \in BOOLEAN, NEW path \in BOOLEAN
  PROVE  DeriveAutonomy(form, bound, path).recommended
           = Smaller(LevelAt(form, MeanScore(form)), LiveCap(form, bound, path))
  BY CleanedScores DEF DeriveAutonomy, ApplyHardGates, BaseLevel

\* Scores that are nowhere lower give a level that is not lower.
LEMMA LevelFollowsScores ==
  ASSUME NEW f \in Scores, NEW g \in Scores, \A p \in PROPERTIES : f[p] <= g[p]
  PROVE  /\ LevelAt(f, MeanScore(f)) <= LevelAt(g, MeanScore(g))
         /\ LevelAt(f, MeanScore(f)) \in Levels /\ LevelAt(g, MeanScore(g)) \in Levels
<1>1. /\ f["verifiability"] <= g["verifiability"] /\ f["evidence"] <= g["evidence"]
      /\ f["reversibility"] <= g["reversibility"] /\ f["determinism"] <= g["determinism"]
      /\ f["impact_scope"] <= g["impact_scope"] /\ f["compliance"] <= g["compliance"]
      /\ f["tacitness"] <= g["tacitness"]
  BY DEF PROPERTIES
<1>2. MeanScore(f) <= MeanScore(g)
  <2>2. /\ f["verifiability"] \in 1..5 /\ f["evidence"] \in 1..5 /\ f["reversibility"] \in 1..5
        /\ f["determinism"] \in 1..5 /\ f["impact_scope"] \in 1..5 /\ f["compliance"] \in 1..5
        /\ f["tacitness"] \in 1..5
    BY SevenScores
  <2>3. /\ g["verifiability"] \in 1..5 /\ g["evidence"] \in 1..5 /\ g["reversibility"] \in 1..5
        /\ g["determinism"] \in 1..5 /\ g["impact_scope"] \in 1..5 /\ g["compliance"] \in 1..5
        /\ g["tacitness"] \in 1..5
    BY SevenScores
  <2>4. f["verifiability"] + f["evidence"] + f["reversibility"] + f["determinism"]
          <= g["verifiability"] + g["evidence"] + g["reversibility"] + g["determinism"]
    BY <1>1, <2>2, <2>3
  <2>5. f["impact_scope"] + f["compliance"] + f["tacitness"]
          <= g["impact_scope"] + g["compliance"] + g["tacitness"]
    BY <1>1, <2>2, <2>3
  <2>6. MeanScore(f) = (f["verifiability"] + f["evidence"] + f["reversibility"] + f["determinism"])
                         + (f["impact_scope"] + f["compliance"] + f["tacitness"])
    BY <2>2 DEF MeanScore
  <2>7. MeanScore(g) = (g["verifiability"] + g["evidence"] + g["reversibility"] + g["determinism"])
                         + (g["impact_scope"] + g["compliance"] + g["tacitness"])
    BY <2>3 DEF MeanScore
  <2>8. /\ f["verifiability"] + f["evidence"] + f["reversibility"] + f["determinism"] \in Int
        /\ g["verifiability"] + g["evidence"] + g["reversibility"] + g["determinism"] \in Int
        /\ f["impact_scope"] + f["compliance"] + f["tacitness"] \in Int
        /\ g["impact_scope"] + g["compliance"] + g["tacitness"] \in Int
    BY <2>2, <2>3
  <2> QED BY <2>4, <2>5, <2>6, <2>7, <2>8
<1>3. MeanScore(f) \in Int /\ MeanScore(g) \in Int
  BY MeanInRange
<1>4. /\ BandForValue(MeanScore(f)) \in 1..5 /\ BandForValue(MeanScore(g)) \in 1..5
      /\ BandForValue(MeanScore(f)) <= BandForValue(MeanScore(g))
  BY <1>2, <1>3, BandMonotone
<1>5. Deterministic(f, MeanScore(f)) => Deterministic(g, MeanScore(g))
  BY <1>1, <1>2, <1>3, SevenScores DEF Deterministic
<1> QED BY <1>4, <1>5 DEF LevelAt, Levels

\* Nor a cap that is lower.
LEMMA CapFollowsScores ==
  ASSUME NEW f \in Scores, NEW g \in Scores, \A p \in PROPERTIES : f[p] <= g[p],
         NEW bound \in BOOLEAN, NEW path \in BOOLEAN
  PROVE  LiveCap(f, bound, path) <= LiveCap(g, bound, path)
<1>1. /\ f["compliance"] <= g["compliance"] /\ f["evidence"] <= g["evidence"]
      /\ f["reversibility"] <= g["reversibility"] /\ f["impact_scope"] <= g["impact_scope"]
  BY DEF PROPERTIES
<1>2. /\ g["compliance"] = 1 => f["compliance"] = 1
      /\ g["evidence"] = 1 => f["evidence"] = 1
      /\ g["reversibility"] = 1 => f["reversibility"] = 1
      /\ g["impact_scope"] = 1 => f["impact_scope"] = 1
  BY <1>1, SevenScores
<1> QED BY <1>2, LiveCapCases

\* A raised score never lowers the recommendation, a tightened contract never
\* raises it: neither a band nor a gate works the wrong way round.
THEOREM MonotoneAlways == Spec => Monotone
<1> DEFINE Ordered == /\ licensed' = licensed /\ evidencePath' = evidencePath
                           => Derived'.recommended >= Derived.recommended
                      /\ scores' = scores => Derived'.recommended <= Derived.recommended
<1>1. Typed /\ Next => Ordered
  <2> SUFFICES ASSUME Typed, Next PROVE Ordered
    OBVIOUS
  <2>0. Typed'
    BY TypedStep
  <2>1. /\ scores \in Scores /\ licensed \in BOOLEAN /\ evidencePath \in BOOLEAN
        /\ scores' \in Scores /\ licensed' \in BOOLEAN /\ evidencePath' \in BOOLEAN
    BY <2>0, FormScoresAssumption DEF Typed, Scores
  <2>2. /\ Derived.recommended
             = Smaller(LevelAt(scores, MeanScore(scores)), LiveCap(scores, licensed, evidencePath))
        /\ Derived'.recommended
             = Smaller(LevelAt(scores', MeanScore(scores')), LiveCap(scores', licensed', evidencePath'))
    BY <2>1, RecommendedLevel DEF Derived
  <2>3. LiveCap(scores, licensed, evidencePath) \in Int /\ LiveCap(scores', licensed', evidencePath') \in Int
    BY <2>1, LiveCapValues
  <2>4. ASSUME NEW p \in PROPERTIES, RaiseScore(p) PROVE Ordered
    <3>1. \A q \in PROPERTIES : scores[q] <= scores'[q]
      BY <2>1, <2>4 DEF RaiseScore, Scores
    <3>2. scores' # scores /\ licensed' = licensed /\ evidencePath' = evidencePath
      BY <2>1, <2>4 DEF RaiseScore, Scores
    <3>3. LevelAt(scores, MeanScore(scores)) <= LevelAt(scores', MeanScore(scores'))
          /\ LevelAt(scores, MeanScore(scores)) \in Levels /\ LevelAt(scores', MeanScore(scores')) \in Levels
      BY <2>1, <3>1, LevelFollowsScores
    <3>4. LiveCap(scores, licensed, evidencePath) <= LiveCap(scores', licensed', evidencePath')
      BY <2>1, <3>1, <3>2, CapFollowsScores
    <3> QED BY <2>2, <2>3, <3>2, <3>3, <3>4 DEF Smaller, Levels
  <2>5. CASE LinkLicence \/ BlankEvidence
    <3>1. scores' = scores /\ ~(licensed' = licensed /\ evidencePath' = evidencePath)
      BY <2>1, <2>5 DEF LinkLicence, BlankEvidence
    <3>2. LiveCap(scores', licensed', evidencePath') <= LiveCap(scores, licensed, evidencePath)
      BY <2>1, <2>5, LiveCapCases DEF LinkLicence, BlankEvidence
    <3>3. LevelAt(scores, MeanScore(scores)) \in Levels
      <4>1. MeanScore(scores) \in Int
        BY <2>1, MeanInRange
      <4> QED BY <2>1, <4>1, LevelMonotone
    <3>4. Derived'.recommended
            = Smaller(LevelAt(scores, MeanScore(scores)), LiveCap(scores', licensed', evidencePath'))
      BY <2>2, <3>1
    <3> QED BY <2>2, <2>3, <3>1, <3>2, <3>3, <3>4 DEF Smaller, Levels
  <2> QED BY <2>4, <2>5 DEF Next
<1>2. Typed /\ [Next]_vars => [Ordered]_vars
  BY <1>1
<1> QED BY <1>2, TypedInit, TypedStep, PTL DEF Spec, Monotone
=============================================================================
