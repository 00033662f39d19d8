-------------------------- MODULE AuthorisedLevel --------------------------
(***************************************************************************)
(* What the autonomy ladder promises of one work unit: a level that stands *)
(* under the recommendation, that a re-score can only pull down, and that  *)
(* rises one step at a time.                                               *)
(***************************************************************************)
EXTENDS Integers

VARIABLES level,       \* the level the unit is authorised to run at
          recommended  \* the level its VERDICT recommends, 1 before any score

vars == <<level, recommended>>

Levels == 1..6

Init == level = 1 /\ recommended = 1

Rescore == /\ recommended' \in Levels
           /\ level' = IF recommended' < level THEN recommended' ELSE level

Promote == /\ level < recommended
           /\ level' = level + 1
           /\ UNCHANGED recommended

Demote == /\ level' \in Levels
          /\ level' < level
          /\ UNCHANGED recommended

Next == Rescore \/ Promote \/ Demote

Spec == Init /\ [][Next]_vars
=============================================================================
