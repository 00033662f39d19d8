------------------------------- MODULE DeskStrip -------------------------------
(***************************************************************************)
(* The document check of the offer desk draws floor, derived and ceiling   *)
(* of a unit's VERDICT row from a copy of the arithmetic of its own        *)
(* (lib/offerDeskScenarios.ts); the derived level it takes from the row.   *)
(***************************************************************************)
EXTENDS Verdict

\* GATE_CAPS of the page, by the name of the gate.
DeskCaps == [gate1_regulatory |-> 2, gate2_reversibility |-> 3, gate3_impact |-> 3, gate4_evidence |-> 2]

\* The level of a mean of k sevenths, below 2.0, 2.75, 3.5, 4.25.
DeskBands(k) == 1 + (IF k >= 14 THEN 1 ELSE 0) + (IF 4 * k >= 77 THEN 1 ELSE 0)
                  + (IF 2 * k >= 49 THEN 1 ELSE 0) + (IF 4 * k >= 119 THEN 1 ELSE 0)

DeskBaseLevel(scores, k) ==
  IF scores["determinism"] = 5 /\ scores["verifiability"] >= 4 /\ scores["tacitness"] >= 4 /\ 2 * k >= 63
  THEN 6 ELSE DeskBands(k)

\* A gate the page does not know of is skipped.
DeskCap(gates) ==
  LET caps == {6} \cup {DeskCaps[g] : g \in gates \cap DOMAIN DeskCaps}
  IN CHOOSE c \in caps : \A d \in caps : c <= d

DeskAllocation(level) == CASE level >= 6 -> "automate" [] level \in 3..5 -> "agent" [] OTHER -> "make"

DeskPoint(level) == [level |-> level, allocation |-> DeskAllocation(level)]

\* The page does not clamp the scores, and does not put the derived level under the cap.
DeskScenarioStrip(row, allocation) ==
  LET Under(k) == Smaller(DeskBaseLevel(row.scores, k), DeskCap(row.gates))
  IN [s1Floor |-> DeskPoint(Under(7 * LowestScore(row.scores))),
      s2Derived |-> [level |-> row.recommended, allocation |-> allocation],
      s3Ceiling |-> DeskPoint(Under(7 * HighestScore(row.scores)))]

\* What the backend's own strip comes to, in the same form.
BackendStrip(row, actorType) ==
  LET strip == ScenarioLevels(row)
      Point(level) == [level |-> level, allocation |-> AllocationFor(level, actorType)]
  IN [s1Floor |-> Point(strip.careful), s2Derived |-> Point(strip.asCalculated), s3Ceiling |-> Point(strip.ambitious)]
=============================================================================
