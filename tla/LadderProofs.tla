---------------------------- MODULE LadderProofs ----------------------------
(***************************************************************************)
(* Theorems of AutonomyLadder for every set of sessions, of score forms,   *)
(* of contracts and every bound.  The first part holds whatever sessions   *)
(* interleave or die; the second takes requests one at a time.             *)
(***************************************************************************)
EXTENDS AutonomyLadder, VerdictProofs, FiniteSetTheorems, SequenceTheorems

LEMMA RecommendedType ==
    ASSUME NEW row \in Rows \cup {NoVerdict}
    PROVE  RecommendedOf(row) \in Levels
  BY DEF RecommendedOf, Rows, Levels

\* Columns written over a row leave a row.
LEMMA MergedRowType ==
    ASSUME NEW a \in Rows, NEW b \in Rows, NEW c \in Rows
    PROVE  MergedRow(a, b, c) \in Rows
<1>1. \A p \in PROPERTIES : Written(a.scores[p], b.scores[p], c.scores[p]) \in 1..5
  BY DEF Written, Rows, Scores
<1>2. Written(a.recommended, b.recommended, c.recommended) \in Levels
  BY DEF Written, Rows
<1>3. Written(a.gates, b.gates, c.gates) \in SUBSET Gates
  BY DEF Written, Rows
<1> QED BY <1>1, <1>2, <1>3 DEF MergedRow, Rows, Scores

LEMMA DerivedIsRow ==
    ASSUME NEW scores \in Scorings, NEW facts \in ContractFacts
    PROVE  DeriveAutonomy(scores, facts.licensed, facts.evidence) \in Rows
<1>1. scores \in Scores /\ facts.licensed \in BOOLEAN /\ facts.evidence \in BOOLEAN
  BY ScoringsAssumption DEF ContractFacts
<1> QED BY <1>1, DerivedRow DEF Rows

LEMMA IdleType == Idle \in SessionStates
  BY DEF Idle, SessionStates, Stages, Levels, Statuses, ContractFacts

LEMMA FinishType ==
    ASSUME NEW s \in Sessions, session \in [Sessions -> SessionStates], Finish(s)
    PROVE  session' \in [Sessions -> SessionStates]
  BY IdleType DEF Finish

\* What one recorded change does to the types.
LEMMA RecordType ==
    ASSUME TypeOK, NEW s \in Sessions, NEW kind \in {"promotion", "demotion"},
           NEW to \in Levels, NEW approver \in Approvers \cup {Blank},
           Record(s, kind, to, approver)
    PROVE  TypeOK'
<1>1. session[s].level \in Levels
  BY DEF TypeOK, SessionStates
<1>2. changes' \in Seq(Changes)
  BY <1>1 DEF TypeOK, Record, Changes
<1>3. session' \in [Sessions -> SessionStates]
  BY FinishType DEF TypeOK, Record
<1> QED BY <1>2, <1>3 DEF TypeOK, Record

LEMMA TypeInit == Init => TypeOK
  BY IdleType, ContractsAssumption DEF Init, TypeOK, Levels, Statuses

LEMMA TypeStep == TypeOK /\ [Next]_vars => TypeOK'
<1> SUFFICES ASSUME TypeOK, [Next]_vars PROVE TypeOK'
  OBVIOUS
<1>0. CASE UNCHANGED vars
  BY <1>0 DEF TypeOK, vars
<1>1. ASSUME NEW s \in Sessions, Load(s) PROVE TypeOK'
  BY <1>1, IdleType DEF TypeOK, Load, SessionStates, Stages, Idle
<1>2. ASSUME NEW s \in Sessions, Answer(s) PROVE TypeOK'
  BY <1>2, FinishType DEF TypeOK, Answer
<1>3. ASSUME NEW s \in Sessions, CheckPromotion(s) PROVE TypeOK'
  <2>1. PICK to \in Levels, approver \in Approvers :
            session' = [session EXCEPT ![s].at = "promoting", ![s].to = to,
                                       ![s].approved_by = approver]
    BY <1>3 DEF CheckPromotion
  <2>2. [session[s] EXCEPT !.at = "promoting", !.to = to, !.approved_by = approver] \in SessionStates
    BY DEF TypeOK, SessionStates, Stages
  <2>3. session' \in [Sessions -> SessionStates]
    BY <2>1, <2>2 DEF TypeOK
  <2> QED BY <1>3, <2>3 DEF TypeOK, CheckPromotion
<1>4. ASSUME NEW s \in Sessions, CommitPromotion(s) PROVE TypeOK'
  <2>1. session[s].to \in Levels /\ session[s].approved_by \in Approvers \cup {Blank}
    BY DEF TypeOK, SessionStates
  <2> QED BY <1>4, <2>1, RecordType DEF CommitPromotion
<1>5. ASSUME NEW s \in Sessions, Demote(s) PROVE TypeOK'
  <2>1. PICK to \in 1..5 : Record(s, "demotion", to, Blank)
    BY <1>5 DEF Demote
  <2>2. to \in Levels
    BY DEF Levels
  <2> QED BY <2>1, <2>2, RecordType
<1>6. ASSUME NEW s \in Sessions, CommitDemotion(s) PROVE TypeOK'
  <2>1. session[s].to \in Levels
    BY DEF TypeOK, SessionStates
  <2> QED BY <1>6, <2>1, RecordType DEF CommitDemotion
<1>7. ASSUME NEW s \in Sessions, InsertRun(s) PROVE TypeOK'
  <2>1. runs' \in Seq(Outcomes)
    BY <1>7 DEF TypeOK, InsertRun
  <2>2. [session[s] EXCEPT !.at = "ran"] \in SessionStates
    BY DEF TypeOK, SessionStates, Stages
  <2>3. session' \in [Sessions -> SessionStates]
    BY <1>7, <2>2 DEF TypeOK, InsertRun
  <2> QED BY <1>7, <2>1, <2>3 DEF TypeOK, InsertRun
<1>8. ASSUME NEW s \in Sessions, CheckFailRate(s) PROVE TypeOK'
  <2>1. CASE session[s].level > 1 /\ FailRateBreached(runs)
    <3>1. session[s].level - 1 \in Levels
      BY <2>1 DEF TypeOK, SessionStates, Levels
    <3>2. [session[s] EXCEPT !.at = "demoting", !.to = session[s].level - 1] \in SessionStates
      BY <3>1 DEF TypeOK, SessionStates, Stages
    <3>3. session' \in [Sessions -> SessionStates]
      BY <1>8, <2>1, <3>2 DEF TypeOK, CheckFailRate
    <3> QED BY <1>8, <3>3 DEF TypeOK, CheckFailRate
  <2>2. CASE ~(session[s].level > 1 /\ FailRateBreached(runs))
    BY <1>8, <2>2, FinishType DEF TypeOK, CheckFailRate
  <2> QED BY <2>1, <2>2
<1>9. ASSUME NEW s \in Sessions, ReadRow(s) PROVE TypeOK'
  <2>1. [session[s] EXCEPT !.at = "scoring", !.row = verdict] \in SessionStates
    BY DEF TypeOK, SessionStates, Stages
  <2>2. session' \in [Sessions -> SessionStates]
    BY <1>9, <2>1 DEF TypeOK, ReadRow
  <2> QED BY <1>9, <2>2 DEF TypeOK, ReadRow
<1>10. ASSUME NEW s \in Sessions, LoseInsert(s) PROVE TypeOK'
  BY <1>10 DEF TypeOK, LoseInsert, SessionStates, Stages
<1>11. ASSUME NEW s \in Sessions, SaveRow(s) PROVE TypeOK'
  <2>1. PICK scores \in Scorings :
            LET new == DeriveAutonomy(scores, session[s].contract.licensed,
                                      session[s].contract.evidence)
            IN  /\ session[s].row # NoVerdict \/ verdict = NoVerdict
                /\ verdict' = IF verdict = NoVerdict
                              THEN new
                              ELSE MergedRow(session[s].row, verdict, new)
    BY <1>11 DEF SaveRow
  <2>2. session[s].contract \in ContractFacts /\ session[s].row \in Rows \cup {NoVerdict}
    BY DEF TypeOK, SessionStates
  <2>3. verdict' \in Rows
    BY <2>1, <2>2, DerivedIsRow, MergedRowType DEF TypeOK
  <2>4. [session[s] EXCEPT !.at = "scored"] \in SessionStates
    BY DEF TypeOK, SessionStates, Stages
  <2>5. session' \in [Sessions -> SessionStates]
    BY <1>11, <2>4 DEF TypeOK, SaveRow
  <2> QED BY <1>11, <2>3, <2>5 DEF TypeOK, SaveRow
<1>12. ASSUME NEW s \in Sessions, CheckCap(s) PROVE TypeOK'
  <2>0. session[s].row \in Rows \cup {NoVerdict}
    BY DEF TypeOK, SessionStates
  <2>1. CASE RecommendedOf(session[s].row) < level
    <3>1. [session[s] EXCEPT !.at = "demoting", !.level = level,
                             !.to = RecommendedOf(session[s].row)] \in SessionStates
      BY <2>0, RecommendedType DEF TypeOK, SessionStates, Stages
    <3>2. session' \in [Sessions -> SessionStates]
      BY <1>12, <2>1, <3>1 DEF TypeOK, CheckCap
    <3> QED BY <1>12, <3>2 DEF TypeOK, CheckCap
  <2>2. CASE ~(RecommendedOf(session[s].row) < level)
    BY <1>12, <2>2, FinishType DEF TypeOK, CheckCap
  <2> QED BY <2>1, <2>2
<1>13. ASSUME NEW s \in Sessions, Patch(s) PROVE TypeOK'
  <2>1. session[s].contract \in ContractFacts /\ session[s].status \in Statuses
    BY DEF TypeOK, SessionStates
  <2>2. contract' \in ContractFacts
    BY <1>13, <2>1, ContractsAssumption DEF Patch, TypeOK, MergedContract, Written, ContractFacts
  <2>3. status' \in Statuses
    BY <1>13, <2>1, StatusesAssumption DEF Patch, TypeOK, Written
  <2> QED BY <1>13, <2>2, <2>3, FinishType DEF TypeOK, Patch
<1>14. ASSUME NEW s \in Sessions, Reconcile(s) PROVE TypeOK'
  BY <1>14, FinishType DEF TypeOK, Reconcile, Statuses
<1>15. ASSUME NEW s \in Sessions, MakeAuthoritative(s) PROVE TypeOK'
  BY <1>15, FinishType DEF TypeOK, MakeAuthoritative, Statuses
<1>16. ASSUME NEW s \in Sessions, Crash(s) PROVE TypeOK'
  BY <1>16, FinishType DEF TypeOK, Crash
<1>17. ASSUME NEW s \in Sessions, RefreshRow(s) PROVE TypeOK'
  <2>1. [session[s] EXCEPT !.at = "refreshed", !.row = verdict] \in SessionStates
    BY DEF TypeOK, SessionStates, Stages
  <2>2. session' \in [Sessions -> SessionStates]
    BY <1>17, <2>1 DEF TypeOK, RefreshRow
  <2> QED BY <1>17, <2>2 DEF TypeOK, RefreshRow
<1> QED BY <1>0, <1>1, <1>2, <1>3, <1>4, <1>5, <1>6, <1>7, <1>8, <1>9, <1>10, <1>11,
           <1>12, <1>13, <1>14, <1>15, <1>16, <1>17 DEF Next, Advance

\* Every variable keeps the shape of its table, in every interleaving.
THEOREM TypeCorrect == Spec => []TypeOK
  BY TypeInit, TypeStep, PTL DEF Spec

-----------------------------------------------------------------------------
(***************************************************************************)
(* In every interleaving: what the audit trail says of the level.          *)
(***************************************************************************)

\* The steps that record a change, and what they record.
LEMMA NextRecordsOrNot ==
    ASSUME TypeOK, [Next]_vars
    PROVE  \/ UNCHANGED <<level, changes>>
           \/ \E s \in Sessions :
                 \/ CommitPromotion(s)
                 \/ CommitDemotion(s)
                 \/ Demote(s)
  BY DEF Next, Advance, vars, Load, Answer, CheckPromotion, InsertRun, CheckFailRate, ReadRow,
         LoseInsert, SaveRow, RefreshRow, CheckCap, Patch, Reconcile, MakeAuthoritative, Crash

LEMMA RecordedTail ==
    ASSUME TypeOK, NEW s \in Sessions, NEW kind, NEW to, NEW approver,
           Record(s, kind, to, approver)
    PROVE  /\ Len(changes') = Len(changes) + 1
           /\ changes'[Len(changes')] = [kind |-> kind, from |-> session[s].level, to |-> to,
                                         approved_by |-> approver]
           /\ \A i \in DOMAIN changes : i \in DOMAIN changes' /\ changes'[i] = changes[i]
           /\ DOMAIN changes' = 1..(Len(changes) + 1)
           /\ changes' # <<>>
           /\ level' = to
  BY DEF TypeOK, Record

\* The newest audit row ends at the level the unit runs at: no interleaving and
\* no crash separates the trail from the level.
THEOREM AuditTailAlways == Spec => []AuditTail
<1>1. Init => AuditTail
  BY DEF Init, AuditTail
<1>2. TypeOK /\ AuditTail /\ [Next]_vars => AuditTail'
  <2> SUFFICES ASSUME TypeOK, AuditTail, [Next]_vars PROVE AuditTail'
    OBVIOUS
  <2>1. CASE UNCHANGED <<level, changes>>
    BY <2>1 DEF AuditTail
  <2>2. ASSUME NEW s \in Sessions, NEW kind, NEW to, NEW approver, Record(s, kind, to, approver)
        PROVE  AuditTail'
    <3>1. /\ changes'[Len(changes')] = [kind |-> kind, from |-> session[s].level, to |-> to,
                                        approved_by |-> approver]
          /\ changes' # <<>>
          /\ level' = to
      BY <2>2, RecordedTail
    <3> QED BY <3>1 DEF AuditTail
  <2> QED BY <2>1, <2>2, NextRecordsOrNot DEF CommitPromotion, CommitDemotion, Demote
<1> QED BY <1>1, <1>2, TypeCorrect, PTL DEF Spec

\* The level of the unit, and every level a session has loaded, was climbed rung
\* by rung, and a session about to write goes one above what it loaded, with an
\* approver, or below it.
EarnedInv ==
    /\ Earned(changes, level)
    /\ \A s \in Sessions :
          /\ Earned(changes, session[s].level)
          /\ session[s].at = "promoting" => /\ session[s].to = session[s].level + 1
                                            /\ session[s].approved_by # Blank
          /\ session[s].at = "demoting" => session[s].to < session[s].level

LEMMA EarnedBelow ==
    ASSUME NEW log, NEW l \in Levels, NEW k \in Levels, k <= l, Earned(log, l)
    PROVE  Earned(log, k)
  BY DEF Earned, Levels

LEMMA EarnedKept ==
    ASSUME NEW log, NEW longer, NEW l \in Levels, Earned(log, l),
           \A i \in DOMAIN log : i \in DOMAIN longer /\ longer[i] = log[i]
    PROVE  Earned(longer, l)
  BY DEF Earned

LEMMA EarnedInit == Init => EarnedInv
  BY DEF Init, EarnedInv, Earned, Idle

\* A change that keeps the rule keeps the invariant.
LEMMA EarnedRecord ==
    ASSUME TypeOK, EarnedInv, NEW s \in Sessions, NEW kind, NEW to \in Levels, NEW approver,
           Record(s, kind, to, approver),
           \/ to < session[s].level
           \/ kind = "promotion" /\ approver # Blank /\ to = session[s].level + 1
    PROVE  EarnedInv'
<1>1. \A l \in Levels : Earned(changes, l) => Earned(changes', l)
  BY RecordedTail, EarnedKept
<1>2. \A t \in Sessions : session[t].level \in Levels
  BY DEF TypeOK, SessionStates
<1>3. Earned(changes', to)
  <2>1. CASE to < session[s].level
    <3>1. Earned(changes, to)
      BY <1>2, <2>1, EarnedBelow DEF EarnedInv, Levels
    <3> QED BY <1>1, <3>1
  <2>2. CASE kind = "promotion" /\ approver # Blank /\ to = session[s].level + 1
    <3>1. Earned(changes', session[s].level)
      BY <1>1, <1>2 DEF EarnedInv
    <3>2. Len(changes') \in DOMAIN changes'
      <4>1. Len(changes) \in Nat
        BY DEF TypeOK
      <4>2. Len(changes') = Len(changes) + 1 /\ DOMAIN changes' = 1..(Len(changes) + 1)
        BY RecordedTail
      <4> QED BY <4>1, <4>2
    <3>3. /\ changes'[Len(changes')].kind = "promotion"
          /\ changes'[Len(changes')].to = to
          /\ changes'[Len(changes')].approved_by # Blank
      <4>1. changes'[Len(changes')] = [kind |-> kind, from |-> session[s].level, to |-> to,
                                       approved_by |-> approver]
        BY RecordedTail
      <4> QED BY <2>2, <4>1
    <3> QED BY <1>2, <2>2, <3>1, <3>2, <3>3 DEF Earned, Levels
  <2> QED BY <2>1, <2>2
<1>4. level' = to
  BY RecordedTail
<1>5. \A t \in Sessions : session'[t] = IF t = s THEN Idle ELSE session[t]
  BY DEF TypeOK, Record, Finish
<1>6. Earned(changes', 1)
  BY DEF Earned
<1>7. ASSUME NEW t \in Sessions
      PROVE  /\ Earned(changes', session'[t].level)
             /\ session'[t].at = "promoting" => /\ session'[t].to = session'[t].level + 1
                                                /\ session'[t].approved_by # Blank
             /\ session'[t].at = "demoting" => session'[t].to < session'[t].level
  BY <1>1, <1>2, <1>5, <1>6 DEF EarnedInv, Idle
<1> QED BY <1>3, <1>4, <1>7 DEF EarnedInv

LEMMA EarnedStep == TypeOK /\ EarnedInv /\ [Next]_vars => EarnedInv'
<1> SUFFICES ASSUME TypeOK, EarnedInv, [Next]_vars PROVE EarnedInv'
  OBVIOUS
<1>0. CASE UNCHANGED vars
  BY <1>0 DEF EarnedInv, vars
<1> DEFINE Kept(t) == /\ Earned(changes, session'[t].level)
                      /\ session'[t].at = "promoting" => /\ session'[t].to = session'[t].level + 1
                                                         /\ session'[t].approved_by # Blank
                      /\ session'[t].at = "demoting" => session'[t].to < session'[t].level
<1>1. ASSUME UNCHANGED <<level, changes>>, NEW s \in Sessions, Kept(s),
             \A t \in Sessions : t # s => session'[t] = session[t]
      PROVE  EarnedInv'
  BY <1>1 DEF EarnedInv
<1>2. Earned(changes, 1)
  BY DEF Earned
<1>3. ASSUME NEW s \in Sessions, Finish(s), UNCHANGED <<level, changes>> PROVE EarnedInv'
  <2>1. session'[s] = Idle /\ \A t \in Sessions : t # s => session'[t] = session[t]
    BY <1>3 DEF TypeOK, Finish
  <2> QED BY <1>1, <1>2, <1>3, <2>1 DEF Idle
<1>4. ASSUME NEW s \in Sessions, Load(s) PROVE EarnedInv'
  <2>1. session'[s] = [Idle EXCEPT !.at = "loaded", !.level = level,
                                   !.status = status, !.contract = contract]
    BY <1>4 DEF Load, TypeOK
  <2>2. Kept(s)
    BY <2>1 DEF EarnedInv, Idle
  <2> QED BY <1>1, <1>4, <2>2 DEF Load, TypeOK
<1>5. ASSUME NEW s \in Sessions, CheckPromotion(s) PROVE EarnedInv'
  <2>1. PICK to \in Levels, approver \in Approvers :
            /\ approver # Blank
            /\ to = session[s].level + 1
            /\ session' = [session EXCEPT ![s].at = "promoting", ![s].to = to,
                                          ![s].approved_by = approver]
    BY <1>5 DEF CheckPromotion
  <2>2. session'[s] = [session[s] EXCEPT !.at = "promoting", !.to = to, !.approved_by = approver]
    BY <2>1 DEF TypeOK
  <2>3. Kept(s)
    BY <2>1, <2>2 DEF TypeOK, SessionStates, EarnedInv
  <2> QED BY <1>1, <1>5, <2>1, <2>3 DEF CheckPromotion, TypeOK
<1>6. ASSUME NEW s \in Sessions, CommitPromotion(s) PROVE EarnedInv'
  <2>1. session[s].to \in Levels
    BY DEF TypeOK, SessionStates
  <2> QED BY <1>6, <2>1, EarnedRecord DEF CommitPromotion, EarnedInv
<1>7. ASSUME NEW s \in Sessions, Demote(s) PROVE EarnedInv'
  <2>1. PICK to \in 1..5 : to < session[s].level /\ Record(s, "demotion", to, Blank)
    BY <1>7 DEF Demote
  <2>2. to \in Levels
    BY DEF Levels
  <2> QED BY <2>1, <2>2, EarnedRecord
<1>8. ASSUME NEW s \in Sessions, CommitDemotion(s) PROVE EarnedInv'
  <2>1. session[s].to \in Levels
    BY DEF TypeOK, SessionStates
  <2> QED BY <1>8, <2>1, EarnedRecord DEF CommitDemotion, EarnedInv
<1>9. ASSUME NEW s \in Sessions, NEW at \in {"ran", "scored", "refreshed", "scoring"}, UNCHANGED <<level, changes>>,
             session'[s].at = at, session'[s].level = session[s].level,
             \A t \in Sessions : t # s => session'[t] = session[t]
      PROVE  EarnedInv'
  BY <1>1, <1>9 DEF EarnedInv
<1>10. ASSUME NEW s \in Sessions, InsertRun(s) PROVE EarnedInv'
  BY <1>9, <1>10 DEF InsertRun, TypeOK, SessionStates
<1>11. ASSUME NEW s \in Sessions, CheckFailRate(s) PROVE EarnedInv'
  <2>1. CASE session[s].level > 1 /\ FailRateBreached(runs)
    <3>1. session'[s] = [session[s] EXCEPT !.at = "demoting", !.to = session[s].level - 1]
      BY <1>11, <2>1 DEF CheckFailRate, TypeOK
    <3>2. session[s].level \in Levels
      BY DEF TypeOK, SessionStates
    <3>3. Kept(s)
      BY <3>1, <3>2 DEF TypeOK, SessionStates, EarnedInv, Levels
    <3> QED BY <1>1, <1>11, <2>1, <3>3 DEF CheckFailRate, TypeOK
  <2>2. CASE ~(session[s].level > 1 /\ FailRateBreached(runs))
    BY <1>3, <1>11, <2>2 DEF CheckFailRate
  <2> QED BY <2>1, <2>2
<1>12. ASSUME NEW s \in Sessions, ReadRow(s) \/ LoseInsert(s) \/ SaveRow(s) \/ RefreshRow(s)
       PROVE  EarnedInv'
  <2>1. CASE ReadRow(s)
    BY <1>9, <2>1 DEF ReadRow, TypeOK, SessionStates
  <2>2. CASE LoseInsert(s)
    BY <1>9, <2>2 DEF LoseInsert, TypeOK, SessionStates
  <2>3. CASE SaveRow(s)
    BY <1>9, <2>3 DEF SaveRow, TypeOK, SessionStates
  <2>4. CASE RefreshRow(s)
    BY <1>9, <2>4 DEF RefreshRow, TypeOK, SessionStates
  <2> QED BY <1>12, <2>1, <2>2, <2>3, <2>4
<1>13. ASSUME NEW s \in Sessions, CheckCap(s) PROVE EarnedInv'
  <2>1. CASE RecommendedOf(session[s].row) < level
    <3>1. session'[s] = [session[s] EXCEPT !.at = "demoting", !.level = level,
                                           !.to = RecommendedOf(session[s].row)]
      BY <1>13, <2>1 DEF CheckCap, TypeOK
    <3>2. Kept(s)
      BY <2>1, <3>1 DEF TypeOK, SessionStates, EarnedInv
    <3> QED BY <1>1, <1>13, <2>1, <3>2 DEF CheckCap, TypeOK
  <2>2. CASE ~(RecommendedOf(session[s].row) < level)
    BY <1>3, <1>13, <2>2 DEF CheckCap
  <2> QED BY <2>1, <2>2
<1>14. ASSUME NEW s \in Sessions,
              Answer(s) \/ Patch(s) \/ Reconcile(s) \/ MakeAuthoritative(s) \/ Crash(s)
       PROVE  EarnedInv'
  BY <1>3, <1>14 DEF Answer, Patch, Reconcile, MakeAuthoritative, Crash
<1> QED BY <1>0, <1>4, <1>5, <1>6, <1>7, <1>8, <1>10, <1>11, <1>12, <1>13, <1>14
        DEF Next, Advance

\* No level is reached unapproved: whatever sessions interleave, whatever stale
\* level a demotion writes back, every rung up to the unit's level has a
\* promotion in the trail that names its approver.
THEOREM LevelsEarnedAlways == Spec => []LevelsEarned
<1>1. EarnedInv => LevelsEarned
  BY DEF EarnedInv, LevelsEarned
<1> QED BY <1>1, EarnedInit, EarnedStep, TypeCorrect, PTL DEF Spec

-----------------------------------------------------------------------------
(***************************************************************************)
(* Requests one at a time, in a process that does not die inside one.      *)
(***************************************************************************)

OneAtATime == (\A s, t \in Sessions : s = t) /\ ~MayCrash

\* Some derivation wrote the stored row, all of it.
DerivedRowStored ==
    verdict # NoVerdict =>
        \E scores \in Scores, licensed \in BOOLEAN, evidencePath \in BOOLEAN :
            verdict = DeriveAutonomy(scores, licensed, evidencePath)

\* A session in hand has nothing stale: the level and the row it holds are the
\* stored ones, and the change it is about to record is still due.
InHand(s) ==
    /\ session[s].at \in {"loaded", "scoring", "ran", "promoting", "demoting"}
          => session[s].level = level
    /\ session[s].at \in {"scoring", "refreshed"} => session[s].row = verdict
    /\ session[s].at = "promoting" => /\ session[s].to = session[s].level + 1
                                      /\ session[s].to <= RecommendedOf(verdict)
                                      /\ PassRateSuffices(runs)
    /\ session[s].at = "demoting" => /\ session[s].to < session[s].level
                                     /\ session[s].to <= RecommendedOf(verdict)

SerialInv == /\ \A s \in Sessions : InHand(s)
             /\ LevelWithinRecommended
             /\ DerivedRowStored
             /\ AuditTail
             /\ AuditChain

LEMMA SerialInit == Init => SerialInv
<1> SUFFICES ASSUME Init PROVE SerialInv
  OBVIOUS
<1>1. \A s \in Sessions : session[s] = Idle
  BY DEF Init
<1>2. \A s \in Sessions : InHand(s)
  BY <1>1 DEF InHand, Idle
<1>3. LevelWithinRecommended
  BY DEF Init, LevelWithinRecommended, RecommendedOf
<1>4. DerivedRowStored /\ AuditTail /\ AuditChain
  BY DEF Init, DerivedRowStored, AuditTail, AuditChain
<1> QED BY <1>2, <1>3, <1>4 DEF SerialInv

LEMMA SerialRecord ==
    ASSUME TypeOK, SerialInv, OneAtATime, NEW s \in Sessions, NEW kind, NEW to \in Levels,
           NEW approver, Record(s, kind, to, approver),
           session[s].level = level, to <= RecommendedOf(verdict)
    PROVE  SerialInv'
<1>1. \A t \in Sessions : t = s
  BY DEF OneAtATime
<1>2. session'[s] = Idle
  BY DEF Record, Finish, TypeOK
<1>3. /\ changes'[Len(changes')] = [kind |-> kind, from |-> session[s].level, to |-> to,
                                    approved_by |-> approver]
      /\ changes' # <<>>
      /\ level' = to
  BY RecordedTail
<1>4. (\A t \in Sessions : InHand(t))'
  BY <1>1, <1>2 DEF InHand, Idle
<1>5. LevelWithinRecommended'
  BY <1>3 DEF LevelWithinRecommended, Record, RecommendedOf
<1>6. DerivedRowStored'
  BY DEF SerialInv, DerivedRowStored, Record
<1>7. AuditTail'
  BY <1>3 DEF AuditTail
<1>8. AuditChain'
  <2> SUFFICES ASSUME NEW i \in DOMAIN changes'
               PROVE  changes'[i].from = IF i = 1 THEN 1 ELSE changes'[i - 1].to
    BY DEF AuditChain
  <2>1. Len(changes) \in Nat /\ DOMAIN changes = 1..Len(changes)
    BY DEF TypeOK
  <2>2. /\ Len(changes') = Len(changes) + 1
        /\ DOMAIN changes' = 1..(Len(changes) + 1)
        /\ \A j \in DOMAIN changes : changes'[j] = changes[j]
    BY RecordedTail
  <2>3. CASE i \in DOMAIN changes
    <3>1. i = 1 \/ i - 1 \in DOMAIN changes
      BY <2>1, <2>3
    <3>2. changes[i].from = IF i = 1 THEN 1 ELSE changes[i - 1].to
      BY <2>3 DEF SerialInv, AuditChain
    <3> QED BY <2>2, <2>3, <3>1, <3>2
  <2>4. CASE i = Len(changes) + 1
    <3>1. changes'[i].from = level
      BY <1>3, <2>2, <2>4
    <3>2. level = IF changes = <<>> THEN 1 ELSE changes[Len(changes)].to
      BY DEF SerialInv, AuditTail
    <3>3. CASE changes = <<>>
      BY <2>4, <3>1, <3>2, <3>3
    <3>4. CASE changes # <<>>
      <4>1. Len(changes) \in DOMAIN changes /\ i - 1 = Len(changes) /\ i # 1
        BY <2>1, <2>4, <3>4 DEF TypeOK
      <4> QED BY <2>2, <3>1, <3>2, <3>4, <4>1
    <3> QED BY <3>3, <3>4
  <2> QED BY <2>1, <2>2, <2>3, <2>4
<1> QED BY <1>4, <1>5, <1>6, <1>7, <1>8 DEF SerialInv

\* A step that records nothing and leaves the row alone.
LEMMA SerialQuiet ==
    ASSUME SerialInv, OneAtATime, NEW s \in Sessions,
           UNCHANGED <<level, verdict, changes>>,
           InHand(s)',
           session[s].at \in {"scored", "refreshed", "demoting"}
              => session'[s].at \in {"scored", "refreshed", "demoting"} \/ level <= RecommendedOf(verdict)
    PROVE  SerialInv'
<1>1. \A t \in Sessions : t = s
  BY DEF OneAtATime
<1>2. (\A t \in Sessions : InHand(t))'
  BY <1>1
<1>3. LevelWithinRecommended'
  BY <1>1 DEF SerialInv, LevelWithinRecommended, RecommendedOf
<1>4. DerivedRowStored' /\ AuditTail' /\ AuditChain'
  BY DEF SerialInv, DerivedRowStored, AuditTail, AuditChain
<1> QED BY <1>2, <1>3, <1>4 DEF SerialInv

\* With the row read unchanged, the merged row is the new derivation.
LEMMA MergeOverUnchanged ==
    ASSUME NEW row \in Rows, NEW new \in Rows
    PROVE  MergedRow(row, row, new) = new
<1>1. \A p \in PROPERTIES : Written(row.scores[p], row.scores[p], new.scores[p]) = new.scores[p]
  BY DEF Written
<1>2. [p \in PROPERTIES |-> Written(row.scores[p], row.scores[p], new.scores[p])] = new.scores
  BY <1>1 DEF Rows, Scores
<1> QED BY <1>2 DEF MergedRow, Written, Rows

LEMMA SerialStep ==
    ASSUME OneAtATime
    PROVE  TypeOK /\ SerialInv /\ [Next]_vars => SerialInv'
<1> SUFFICES ASSUME TypeOK, SerialInv, [Next]_vars PROVE SerialInv'
  OBVIOUS
<1>0. CASE UNCHANGED vars
  BY <1>0 DEF SerialInv, InHand, LevelWithinRecommended, DerivedRowStored, AuditTail, AuditChain, vars
<1>a. \A s \in Sessions : InHand(s) /\ session[s] \in SessionStates
  BY DEF SerialInv, TypeOK
<1>b. level \in Levels /\ RecommendedOf(verdict) \in Levels
  BY RecommendedType DEF TypeOK
<1>1. ASSUME NEW s \in Sessions, Finish(s), UNCHANGED <<level, verdict, changes>>,
             session[s].at \in {"scored", "refreshed", "demoting"} => level <= RecommendedOf(verdict)
      PROVE  SerialInv'
  <2>1. session'[s] = Idle
    BY <1>1 DEF TypeOK, Finish
  <2>2. InHand(s)'
    BY <2>1 DEF InHand, Idle
  <2> QED BY <1>1, <2>2, SerialQuiet
<1>2. ASSUME NEW s \in Sessions, Load(s) PROVE SerialInv'
  <2>1. session'[s] = [Idle EXCEPT !.at = "loaded", !.level = level,
                                   !.status = status, !.contract = contract]
    BY <1>2 DEF Load, TypeOK
  <2>2. InHand(s)'
    BY <1>2, <2>1 DEF InHand, Idle, Load
  <2> QED BY <1>2, <2>2, SerialQuiet DEF Load
<1>3. ASSUME NEW s \in Sessions, CheckPromotion(s) PROVE SerialInv'
  <2>1. PICK to \in Levels, approver \in Approvers :
            /\ session[s].at = "loaded"
            /\ to = session[s].level + 1
            /\ to <= RecommendedOf(verdict)
            /\ PassRateSuffices(runs)
            /\ session' = [session EXCEPT ![s].at = "promoting", ![s].to = to,
                                          ![s].approved_by = approver]
            /\ UNCHANGED <<level, verdict, runs, changes>>
    BY <1>3 DEF CheckPromotion
  <2>2. session'[s] = [session[s] EXCEPT !.at = "promoting", !.to = to, !.approved_by = approver]
    BY <2>1 DEF TypeOK
  <2>3. /\ session'[s].at = "promoting" /\ session'[s].to = to
        /\ session'[s].level = session[s].level
    BY <1>a, <2>2 DEF SessionStates
  <2>4. InHand(s)'
    BY <1>a, <2>1, <2>3 DEF InHand, RecommendedOf, PassRateSuffices, Counted, Passed, Recent
  <2> QED BY <2>1, <2>4, SerialQuiet
<1>4. ASSUME NEW s \in Sessions, CommitPromotion(s) PROVE SerialInv'
  <2>1. session[s].to \in Levels /\ session[s].level = level /\ session[s].to <= RecommendedOf(verdict)
    BY <1>4, <1>a DEF CommitPromotion, InHand, SessionStates
  <2> QED BY <1>4, <2>1, SerialRecord DEF CommitPromotion
<1>5. ASSUME NEW s \in Sessions, Demote(s) PROVE SerialInv'
  <2>1. PICK to \in 1..5 : /\ session[s].at = "loaded"
                           /\ to < session[s].level
                           /\ Record(s, "demotion", to, Blank)
    BY <1>5 DEF Demote
  <2>2. session[s].level = level
    BY <1>a, <2>1 DEF InHand
  <2>3. level <= RecommendedOf(verdict)
    <3>1. \A t \in Sessions : t = s
      BY DEF OneAtATime
    <3> QED BY <2>1, <3>1 DEF SerialInv, LevelWithinRecommended
  <2>4. to \in Levels /\ to <= RecommendedOf(verdict)
    BY <1>b, <2>1, <2>2, <2>3 DEF Levels
  <2> QED BY <2>1, <2>2, <2>4, SerialRecord
<1>6. ASSUME NEW s \in Sessions, CommitDemotion(s) PROVE SerialInv'
  <2>1. session[s].to \in Levels /\ session[s].level = level /\ session[s].to <= RecommendedOf(verdict)
    BY <1>6, <1>a DEF CommitDemotion, InHand, SessionStates
  <2> QED BY <1>6, <2>1, SerialRecord DEF CommitDemotion
<1>7. ASSUME NEW s \in Sessions, InsertRun(s) PROVE SerialInv'
  <2>1. /\ session[s].at = "loaded"
        /\ session'[s] = [session[s] EXCEPT !.at = "ran"]
        /\ UNCHANGED <<level, verdict, changes>>
    BY <1>7 DEF InsertRun, TypeOK
  <2>2. session'[s].at = "ran" /\ session'[s].level = session[s].level
    BY <1>a, <2>1 DEF SessionStates
  <2>3. InHand(s)'
    BY <1>a, <2>1, <2>2 DEF InHand
  <2> QED BY <2>1, <2>3, SerialQuiet
<1>8. ASSUME NEW s \in Sessions, CheckFailRate(s) PROVE SerialInv'
  <2>1. session[s].at = "ran" /\ session[s].level = level /\ UNCHANGED <<level, verdict, runs, changes>>
    BY <1>8, <1>a DEF CheckFailRate, InHand
  <2>2. CASE session[s].level > 1 /\ FailRateBreached(runs)
    <3>1. session'[s] = [session[s] EXCEPT !.at = "demoting", !.to = session[s].level - 1]
      BY <1>8, <2>2 DEF CheckFailRate, TypeOK
    <3>2. /\ session'[s].at = "demoting" /\ session'[s].level = level
          /\ session'[s].to = level - 1
      BY <1>a, <2>1, <3>1 DEF SessionStates
    <3>3. level <= RecommendedOf(verdict)
      <4>1. \A t \in Sessions : t = s
        BY DEF OneAtATime
      <4> QED BY <2>1, <4>1 DEF SerialInv, LevelWithinRecommended
    <3>4. RecommendedOf(verdict') = RecommendedOf(verdict)
      BY <2>1
    <3>5. InHand(s)'
      BY <1>b, <2>1, <3>2, <3>3, <3>4 DEF InHand, Levels
    <3> QED BY <2>1, <3>5, SerialQuiet
  <2>3. CASE ~(session[s].level > 1 /\ FailRateBreached(runs))
    BY <1>1, <1>8, <2>1, <2>3 DEF CheckFailRate
  <2> QED BY <2>2, <2>3
<1>9. ASSUME NEW s \in Sessions, ReadRow(s) PROVE SerialInv'
  <2>1. /\ session[s].at = "loaded"
        /\ session'[s] = [session[s] EXCEPT !.at = "scoring", !.row = verdict]
        /\ UNCHANGED <<level, verdict, changes>>
    BY <1>9 DEF ReadRow, TypeOK
  <2>2. /\ session'[s].at = "scoring" /\ session'[s].level = session[s].level
        /\ session'[s].row = verdict
    BY <1>a, <2>1 DEF SessionStates
  <2>3. InHand(s)'
    BY <1>a, <2>1, <2>2 DEF InHand
  <2> QED BY <2>1, <2>3, SerialQuiet
<1>10. ASSUME NEW s \in Sessions, LoseInsert(s) PROVE SerialInv'
  BY <1>10, <1>a DEF LoseInsert, InHand
<1>11. ASSUME NEW s \in Sessions, SaveRow(s) PROVE SerialInv'
  <2>1. PICK scores \in Scorings :
            LET new == DeriveAutonomy(scores, session[s].contract.licensed,
                                      session[s].contract.evidence)
            IN  /\ session[s].at = "scoring"
                /\ verdict' = IF verdict = NoVerdict
                              THEN new
                              ELSE MergedRow(session[s].row, verdict, new)
                /\ session' = [session EXCEPT ![s].at = "scored"]
                /\ UNCHANGED <<level, changes>>
    BY <1>11 DEF SaveRow
  <2> DEFINE new == DeriveAutonomy(scores, session[s].contract.licensed, session[s].contract.evidence)
  <2>2. session[s].contract \in ContractFacts /\ session[s].row = verdict
    BY <1>a, <2>1 DEF InHand, SessionStates
  <2>3. new \in Rows
    BY <2>2, DerivedIsRow
  <2>4. verdict' = new
    BY <2>1, <2>2, <2>3, MergeOverUnchanged DEF TypeOK
  <2>5. DerivedRowStored'
    <3>1. /\ scores \in Scores /\ session[s].contract.licensed \in BOOLEAN
          /\ session[s].contract.evidence \in BOOLEAN
      BY <2>2, ScoringsAssumption DEF ContractFacts
    <3> QED BY <2>4, <3>1 DEF DerivedRowStored
  <2>6. session'[s].at = "scored"
    BY <2>1 DEF TypeOK, SessionStates
  <2>7. \A t \in Sessions : t = s
    BY DEF OneAtATime
  <2>8. (\A t \in Sessions : InHand(t))'
    BY <2>6, <2>7 DEF InHand
  <2>9. LevelWithinRecommended'
    BY <2>6 DEF LevelWithinRecommended
  <2>10. AuditTail' /\ AuditChain'
    BY <2>1 DEF SerialInv, AuditTail, AuditChain
  <2> QED BY <2>5, <2>8, <2>9, <2>10 DEF SerialInv
<1>12. ASSUME NEW s \in Sessions, CheckCap(s) PROVE SerialInv'
  <2>1. /\ session[s].at = "refreshed" /\ session[s].row = verdict
        /\ UNCHANGED <<level, verdict, changes>>
    BY <1>12, <1>a DEF CheckCap, InHand
  <2>2. CASE RecommendedOf(verdict) < level
    <3>1. session'[s] = [session[s] EXCEPT !.at = "demoting", !.level = level,
                                           !.to = RecommendedOf(verdict)]
      BY <1>12, <2>1, <2>2 DEF CheckCap, TypeOK
    <3>2. /\ session'[s].at = "demoting" /\ session'[s].level = level
          /\ session'[s].to = RecommendedOf(verdict)
      BY <1>a, <3>1 DEF SessionStates
    <3>3. InHand(s)'
      BY <1>b, <2>1, <2>2, <3>2 DEF InHand, Levels
    <3> QED BY <2>1, <3>2, <3>3, SerialQuiet
  <2>3. CASE ~(RecommendedOf(verdict) < level)
    <3>1. level <= RecommendedOf(verdict)
      BY <1>b, <2>3 DEF Levels
    <3> QED BY <1>1, <1>12, <2>1, <2>3, <3>1 DEF CheckCap
  <2> QED BY <2>2, <2>3
<1>13. ASSUME NEW s \in Sessions, Answer(s) \/ Patch(s) \/ Reconcile(s) \/ MakeAuthoritative(s)
       PROVE  SerialInv'
  BY <1>1, <1>13 DEF Answer, Patch, Reconcile, MakeAuthoritative
<1>14. ASSUME NEW s \in Sessions, Crash(s) PROVE SerialInv'
  BY <1>14 DEF Crash, OneAtATime
<1>15. ASSUME NEW s \in Sessions, RefreshRow(s) PROVE SerialInv'
  <2>1. /\ session'[s] = [session[s] EXCEPT !.at = "refreshed", !.row = verdict]
        /\ UNCHANGED <<level, verdict, changes>>
    BY <1>15 DEF RefreshRow, TypeOK
  <2>2. session'[s].at = "refreshed" /\ session'[s].row = verdict
    BY <1>a, <2>1 DEF SessionStates
  <2>3. InHand(s)'
    BY <2>1, <2>2 DEF InHand
  <2> QED BY <2>1, <2>2, <2>3, SerialQuiet
<1> QED BY <1>0, <1>2, <1>3, <1>4, <1>5, <1>6, <1>7, <1>8, <1>9, <1>10, <1>11, <1>12, <1>13, <1>14,
           <1>15 DEF Next, Advance

\* Requests one at a time: outside the commits of a re-score the unit never runs
\* above its recommendation.
THEOREM LevelWithinRecommendedSerially ==
    ASSUME OneAtATime
    PROVE  Spec => []LevelWithinRecommended
<1>1. SerialInv => LevelWithinRecommended
  BY DEF SerialInv
<1> QED BY <1>1, SerialInit, SerialStep, TypeCorrect, PTL DEF Spec

\* Requests one at a time: each audit row starts where the one before it ended.
THEOREM AuditChainSerially ==
    ASSUME OneAtATime
    PROVE  Spec => []AuditChain
<1>1. SerialInv => AuditChain
  BY DEF SerialInv
<1> QED BY <1>1, SerialInit, SerialStep, TypeCorrect, PTL DEF Spec

\* Requests one at a time: the stored row yields a scenario strip in order, for
\* every form of seven scores.
THEOREM StoredStripSerially ==
    ASSUME OneAtATime
    PROVE  Spec => []StoredStripMonotonic
<1>1. SerialInv => StoredStripMonotonic
  BY StripInOrder DEF SerialInv, DerivedRowStored, StoredStripMonotonic
<1> QED BY <1>1, SerialInit, SerialStep, TypeCorrect, PTL DEF Spec

\* With one session in hand, a stage that is not part of a re-score finds the
\* level under the recommendation.
LEMMA WithinNow ==
    ASSUME OneAtATime, TypeOK, SerialInv, NEW s \in Sessions,
           session[s].at \notin {"scored", "refreshed", "demoting"}
    PROVE  level <= RecommendedOf(verdict)
  BY DEF OneAtATime, SerialInv, LevelWithinRecommended

\* Requests one at a time: only a promotion raises the level, by one, to a level
\* the verdict allows and on a pass rate that suffices when it commits.
THEOREM RaisesAreEarnedSerially ==
    ASSUME OneAtATime
    PROVE  Spec => RaisesAreEarned
<1> DEFINE Earns == /\ level' = level + 1
                    /\ level' <= RecommendedOf(verdict)
                    /\ PassRateSuffices(runs)
                    /\ changes' # changes
                    /\ changes'[Len(changes')].kind = "promotion"
<1>1. TypeOK /\ SerialInv /\ [Next]_vars => [level' > level => Earns]_vars
  <2> SUFFICES ASSUME TypeOK, SerialInv, [Next]_vars, level' > level PROVE Earns
    OBVIOUS
  <2>1. level \in Int
    BY DEF TypeOK, Levels
  <2>2. \A s \in Sessions : InHand(s)
    BY DEF SerialInv
  <2>3. ASSUME NEW s \in Sessions, CommitPromotion(s) PROVE Earns
    <3>1. Record(s, "promotion", session[s].to, session[s].approved_by)
      BY <2>3 DEF CommitPromotion
    <3>2. /\ level' = session[s].to
          /\ Len(changes') = Len(changes) + 1
          /\ changes'[Len(changes')] = [kind |-> "promotion", from |-> session[s].level,
                                        to |-> session[s].to,
                                        approved_by |-> session[s].approved_by]
      BY <3>1, RecordedTail
    <3>3. changes' # changes
      BY <3>2 DEF TypeOK
    <3> QED BY <2>2, <2>3, <3>2, <3>3 DEF CommitPromotion, InHand
  <2>4. ASSUME NEW s \in Sessions, CommitDemotion(s) PROVE FALSE
    <3>1. level' = session[s].to
      BY <2>4 DEF CommitDemotion, Record
    <3>2. session[s].to < session[s].level /\ session[s].level = level
      BY <2>2, <2>4 DEF CommitDemotion, InHand
    <3>3. session[s].to \in Int
      BY DEF TypeOK, SessionStates, Levels
    <3> QED BY <2>1, <3>1, <3>2, <3>3
  <2>5. ASSUME NEW s \in Sessions, Demote(s) PROVE FALSE
    <3>1. level' \in 1..5 /\ level' < session[s].level /\ session[s].level = level
      BY <2>2, <2>5 DEF Demote, Record, InHand
    <3> QED BY <2>1, <3>1
  <2> QED BY <2>1, <2>3, <2>4, <2>5, NextRecordsOrNot
<1> QED BY <1>1, SerialInit, SerialStep, TypeCorrect, PTL DEF Spec, RaisesAreEarned

-----------------------------------------------------------------------------
(***************************************************************************)
(* Streaks of breaches, and the peak of the level.                         *)
(***************************************************************************)

\* The newest runs in a row that were recorded in breach, and how many.
Breaching(history) ==
    {j \in DOMAIN history : \A k \in j..Len(history) : FailRateBreached(SubSeq(history, 1, k))}

Streak(history) == Cardinality(Breaching(history))

LEMMA StreakIs == BreachStreak = Streak(runs)
  BY DEF BreachStreak, Streak, Breaching

LEMMA StreakType ==
    ASSUME NEW history \in Seq(Outcomes)
    PROVE  IsFiniteSet(Breaching(history)) /\ Streak(history) \in Nat
<1>1. Len(history) \in Nat /\ Breaching(history) \subseteq 1..Len(history)
  BY DEF Breaching
<1>2. IsFiniteSet(1..Len(history))
  BY <1>1, FS_Interval
<1>3. IsFiniteSet(Breaching(history))
  BY <1>1, <1>2, FS_Subset
<1> QED BY <1>3, FS_CardinalityType DEF Streak

\* A run that is recorded out of breach ends the streak.
LEMMA StreakEnds ==
    ASSUME NEW history \in Seq(Outcomes), ~FailRateBreached(history)
    PROVE  Streak(history) = 0
<1>1. SubSeq(history, 1, Len(history)) = history
  BY SubSeqFull
<1>2. \A j \in DOMAIN history : Len(history) \in j..Len(history)
  OBVIOUS
<1>3. Breaching(history) = {}
  BY <1>1, <1>2 DEF Breaching
<1> QED BY <1>3, FS_EmptySet DEF Streak

\* A run makes the streak longer by one at most.
LEMMA StreakGrows ==
    ASSUME NEW history \in Seq(Outcomes), NEW outcome \in Outcomes
    PROVE  Streak(Append(history, outcome)) <= Streak(history) + 1
<1>1. PICK n \in Nat : n = Len(history)
  OBVIOUS
<1>2. PICK more : more = Append(history, outcome)
  OBVIOUS
<1>3. /\ more \in Seq(Outcomes) /\ Len(more) = n + 1
      /\ \A i \in 1..n : more[i] = history[i]
  BY <1>1, <1>2
<1>4. \A k \in 1..n : SubSeq(more, 1, k) = SubSeq(history, 1, k)
  <2> SUFFICES ASSUME NEW k \in 1..n PROVE SubSeq(more, 1, k) = SubSeq(history, 1, k)
    OBVIOUS
  <2>1. SubSeq(more, 1, k) \in Seq(Outcomes) /\ SubSeq(history, 1, k) \in Seq(Outcomes)
    BY <1>1, <1>3, SubSeqProperties
  <2>2. Len(SubSeq(more, 1, k)) = k /\ Len(SubSeq(history, 1, k)) = k
    BY <1>1, <1>3
  <2>3. \A i \in 1..k : SubSeq(more, 1, k)[i] = SubSeq(history, 1, k)[i]
    BY <1>1, <1>3
  <2> QED BY <2>1, <2>2, <2>3, SeqEqual
<1>5. Breaching(more) \subseteq Breaching(history) \cup {n + 1}
  <2> SUFFICES ASSUME NEW j \in Breaching(more), j # n + 1 PROVE j \in Breaching(history)
    OBVIOUS
  <2>1. j \in 1..n /\ \A k \in j..(n + 1) : FailRateBreached(SubSeq(more, 1, k))
    BY <1>3 DEF Breaching
  <2>2. \A k \in j..n : k \in 1..n /\ k \in j..(n + 1)
    BY <2>1
  <2>3. \A k \in j..n : FailRateBreached(SubSeq(history, 1, k))
    BY <1>4, <2>1, <2>2
  <2> QED BY <1>1, <2>1, <2>3 DEF Breaching
<1>6. IsFiniteSet(Breaching(history)) /\ Streak(history) \in Nat
  BY StreakType
<1>7. /\ IsFiniteSet(Breaching(history) \cup {n + 1})
      /\ Cardinality(Breaching(history) \cup {n + 1}) <= Streak(history) + 1
  <2>1. PICK S, x : S = Breaching(history) /\ x = n + 1
    OBVIOUS
  <2>2. PICK c \in Nat : c = Cardinality(S)
    BY <1>6, <2>1 DEF Streak
  <2>3. IsFiniteSet(S \cup {x}) /\ Cardinality(S \cup {x}) \in {c, c + 1}
    <3>1. IsFiniteSet(S)
      BY <1>6, <2>1
    <3>2. /\ IsFiniteSet(S \cup {x})
          /\ Cardinality(S \cup {x}) = IF x \in S THEN Cardinality(S) ELSE Cardinality(S) + 1
      BY <3>1, FS_AddElement
    <3> QED BY <2>2, <3>2
  <2>4. Cardinality(S \cup {x}) <= c + 1
    BY <2>3
  <2> QED BY <2>1, <2>2, <2>3, <2>4 DEF Streak
<1>8. Streak(more) <= Cardinality(Breaching(history) \cup {n + 1})
  BY <1>5, <1>7, FS_Subset DEF Streak
<1>9. Streak(more) \in Nat /\ Cardinality(Breaching(history) \cup {n + 1}) \in Nat
  BY <1>3, <1>7, StreakType, FS_CardinalityType
<1> QED BY <1>2, <1>6, <1>7, <1>8, <1>9

\* A pass rate that suffices is not in breach.
LEMMA SufficesUnbreached ==
    ASSUME NEW history \in Seq(Outcomes), PassRateSuffices(history)
    PROVE  ~FailRateBreached(history)
<1>1. Recent(history) \in Seq(Outcomes)
  <2>1. CASE Len(history) <= Window
    BY <2>1 DEF Recent
  <2>2. CASE ~(Len(history) <= Window)
    <3>1. PICK a, b : a = Len(history) - Window + 1 /\ b = Len(history)
      OBVIOUS
    <3>2. a \in Int /\ b \in Int /\ \A i \in a..b : i \in 1..Len(history)
      BY <2>2, <3>1, BoundsAssumption
    <3>3. SubSeq(history, a, b) \in Seq(Outcomes)
      BY <3>2, SubSeqProperties
    <3> QED BY <2>2, <3>1, <3>3 DEF Recent
  <2> QED BY <2>1, <2>2
<1>2. IsFiniteSet(1..Len(Recent(history)))
  BY <1>1, FS_Interval
<1>3. IsFiniteSet({i \in DOMAIN Recent(history) : Recent(history)[i] = "passed"})
  BY <1>1, <1>2, FS_Subset
<1>4. PICK p \in Nat : p = Passed(history)
  BY <1>3, FS_CardinalityType DEF Passed
<1>5. PICK c \in Nat : c = Counted(history)
  BY <1>1 DEF Counted
<1>6. 100 * p >= 95 * c /\ c > 0
  BY <1>4, <1>5 DEF PassRateSuffices
<1>7. ~(10 * (c - p) > c)
  BY <1>6
<1> QED BY <1>4, <1>5, <1>7 DEF FailRateBreached

\* The highest level of a trail.
IsPeak(log, peak) == /\ peak \in {1} \cup {log[i].to : i \in DOMAIN log}
                     /\ \A i \in DOMAIN log : log[i].to <= peak

LEMMA TopsType ==
    ASSUME TypeOK
    PROVE  \A i \in DOMAIN changes : changes[i].to \in Levels
<1>1. \A i \in DOMAIN changes : changes[i] \in Changes
  BY DEF TypeOK
<1> QED BY <1>1 DEF Changes

LEMMA PeakIs ==
    ASSUME TypeOK, NEW peak \in Levels, IsPeak(changes, peak)
    PROVE  Peak = peak
<1>1. \A i \in DOMAIN changes : changes[i].to \in Levels
  BY TopsType
<1>2. IsPeak(changes, Peak)
  BY DEF Peak, IsPeak
<1>3. \A q : IsPeak(changes, q) => q = peak
  <2> SUFFICES ASSUME NEW q, IsPeak(changes, q) PROVE q = peak
    OBVIOUS
  <2>1. q \in Levels
    BY <1>1 DEF IsPeak, Levels
  <2>2. q <= peak
    BY <1>1, <2>1 DEF IsPeak, Levels
  <2>3. peak <= q
    BY <1>1, <2>1 DEF IsPeak, Levels
  <2> QED BY <2>1, <2>2, <2>3 DEF Levels
<1> QED BY <1>2, <1>3

\* A change leaves the peak where it is, or is the peak.
LEMMA PeakRecorded ==
    ASSUME TypeOK, NEW peak \in Levels, IsPeak(changes, peak), NEW s \in Sessions, NEW kind,
           NEW to \in Levels, NEW approver, Record(s, kind, to, approver)
    PROVE  \E top \in Levels : IsPeak(changes', top) /\ peak <= top /\ to <= top
<1>1. PICK n \in Nat : n = Len(changes) /\ DOMAIN changes = 1..n
  BY DEF TypeOK
<1>2. /\ DOMAIN changes' = 1..(n + 1)
      /\ \A i \in 1..n : changes'[i] = changes[i]
      /\ changes'[n + 1].to = to
  <2>1. /\ Len(changes') = Len(changes) + 1
        /\ changes'[Len(changes')].to = to
        /\ \A i \in DOMAIN changes : changes'[i] = changes[i]
        /\ DOMAIN changes' = 1..(Len(changes) + 1)
    <3>1. changes'[Len(changes')] = [kind |-> kind, from |-> session[s].level, to |-> to,
                                     approved_by |-> approver]
      BY RecordedTail
    <3>2. changes'[Len(changes')].to = to
      BY <3>1
    <3> QED BY <3>2, RecordedTail
  <2> QED BY <1>1, <2>1
<1>3. CASE to <= peak
  <2>1. peak \in {1} \cup {changes'[i].to : i \in DOMAIN changes'}
    BY <1>1, <1>2 DEF IsPeak
  <2>2. \A i \in DOMAIN changes' : changes'[i].to <= peak
    BY <1>1, <1>2, <1>3 DEF IsPeak
  <2> QED BY <1>3, <2>1, <2>2 DEF IsPeak, Levels
<1>4. CASE ~(to <= peak)
  <2>1. to \in {changes'[i].to : i \in DOMAIN changes'}
    BY <1>2
  <2>2. \A i \in 1..n : changes[i].to \in Levels /\ changes[i].to <= peak
    BY <1>1, TopsType DEF IsPeak
  <2>3. \A i \in DOMAIN changes' : changes'[i].to <= to
    BY <1>2, <1>4, <2>2 DEF Levels
  <2> QED BY <1>4, <2>1, <2>3 DEF IsPeak, Levels
<1> QED BY <1>3, <1>4

\* A level that has paid for the streak.
Paid(l, peak, streak) == l = 1 \/ l + streak <= peak

\* Each run in breach is paid for with a level, unless its session is about to
\* see to it, or the unit is at L1.
BreachInv ==
    \E peak \in Levels :
        /\ IsPeak(changes, peak)
        /\ level <= peak
        /\ (\A s \in Sessions : session[s].at \notin {"ran", "demoting"})
              => Paid(level, peak, Streak(runs))
        /\ \A s \in Sessions : session[s].at = "ran"
              => level = 1 \/ level + Streak(runs) <= peak + 1
        /\ \A s \in Sessions : session[s].at = "demoting" => Paid(session[s].to, peak, Streak(runs))

LEMMA BreachInit == Init => BreachInv
<1> SUFFICES ASSUME Init PROVE BreachInv
  OBVIOUS
<1>1. level = 1 /\ changes = <<>> /\ 1 \in Levels
  BY DEF Init, Levels
<1>2. IsPeak(changes, 1)
  BY <1>1 DEF IsPeak
<1>3. \A s \in Sessions : session[s].at = "idle"
  BY DEF Init, Idle
<1> QED BY <1>1, <1>2, <1>3 DEF BreachInv, Paid

\* A change to a level that has paid, or on a pass rate that suffices.
LEMMA BreachRecord ==
    ASSUME TypeOK, OneAtATime, NEW peak \in Levels, IsPeak(changes, peak), NEW s \in Sessions, NEW kind,
           NEW to \in Levels, NEW approver, Record(s, kind, to, approver),
           Paid(to, peak, Streak(runs)) \/ Streak(runs) = 0
    PROVE  BreachInv'
<1>1. PICK top \in Levels : IsPeak(changes', top) /\ peak <= top /\ to <= top
  BY PeakRecorded
<1>2. PICK n \in Nat : n = Streak(runs)
  BY StreakType DEF TypeOK
<1>3. Paid(to, top, n)
  BY <1>1, <1>2 DEF Paid, Levels
<1>4. level' = to /\ runs' = runs
  BY DEF Record
<1>5. session'[s].at = "idle"
  BY DEF Record, Finish, TypeOK, Idle
<1>6. \A t \in Sessions : session'[t].at = "idle"
  BY <1>5 DEF OneAtATime
<1>7. Streak(runs') = n
  BY <1>2, <1>4
<1> QED BY <1>1, <1>3, <1>4, <1>6, <1>7 DEF BreachInv

LEMMA BreachStep ==
    ASSUME OneAtATime
    PROVE  TypeOK /\ SerialInv /\ BreachInv /\ [Next]_vars => BreachInv'
<1> SUFFICES ASSUME TypeOK, SerialInv, BreachInv, [Next]_vars PROVE BreachInv'
  OBVIOUS
<1>a. \A s \in Sessions : InHand(s) /\ session[s] \in SessionStates
  BY DEF SerialInv, TypeOK
<1>b. level \in Levels /\ runs \in Seq(Outcomes) /\ \A s, t \in Sessions : s = t
  BY DEF TypeOK, OneAtATime
<1>c. PICK peak \in Levels :
        /\ IsPeak(changes, peak)
        /\ level <= peak
        /\ (\A s \in Sessions : session[s].at \notin {"ran", "demoting"}) => Paid(level, peak, Streak(runs))
        /\ \A s \in Sessions : session[s].at = "ran" => level = 1 \/ level + Streak(runs) <= peak + 1
        /\ \A s \in Sessions : session[s].at = "demoting" => Paid(session[s].to, peak, Streak(runs))
  BY DEF BreachInv
<1>d. PICK n \in Nat : n = Streak(runs)
  BY <1>b, StreakType
<1>e. \A s \in Sessions : session[s].at \notin {"ran", "demoting"} => Paid(level, peak, n)
  BY <1>b, <1>c, <1>d
<1>0. CASE UNCHANGED vars
  BY <1>0 DEF BreachInv, vars
\* Nothing is recorded, and no run.
<1>1. ASSUME NEW s \in Sessions, UNCHANGED <<level, runs, changes>>, Paid(level, peak, n),
             session'[s].at \notin {"ran", "demoting"}
      PROVE  BreachInv'
  <2>1. \A t \in Sessions : session'[t].at \notin {"ran", "demoting"}
    BY <1>1, <1>b
  <2>2. Streak(runs') = n /\ IsPeak(changes', peak) /\ level' = level
    BY <1>1, <1>c, <1>d
  <2> QED BY <1>1, <1>c, <2>1, <2>2 DEF BreachInv
<1>2. ASSUME NEW s \in Sessions, Finish(s), UNCHANGED <<level, runs, changes>>, Paid(level, peak, n)
      PROVE  BreachInv'
  <2>1. session'[s].at = "idle"
    BY <1>2 DEF Finish, TypeOK, Idle
  <2> QED BY <1>1, <1>2, <2>1
<1>3. ASSUME NEW s \in Sessions, UNCHANGED <<level, runs, changes>>, session'[s].at = "demoting",
             Paid(session'[s].to, peak, n)
      PROVE  BreachInv'
  <2>1. \A t \in Sessions : session'[t].at = "demoting" /\ Paid(session'[t].to, peak, n)
    BY <1>3, <1>b
  <2>2. Streak(runs') = n /\ IsPeak(changes', peak) /\ level' = level
    BY <1>3, <1>c, <1>d
  <2> QED BY <1>3, <1>c, <2>1, <2>2 DEF BreachInv
<1>4. ASSUME NEW s \in Sessions, \/ Load(s) \/ CheckPromotion(s) \/ ReadRow(s) \/ LoseInsert(s)
                                  \/ SaveRow(s) \/ RefreshRow(s)
      PROVE  BreachInv'
  <2>1. UNCHANGED <<level, runs, changes>> /\ session[s].at \notin {"ran", "demoting"}
    BY <1>4 DEF Load, CheckPromotion, ReadRow, LoseInsert, SaveRow, RefreshRow
  <2>2. session'[s].at \in {"loaded", "promoting", "scoring", "scored", "refreshed"}
    <3>1. CASE Load(s)
      BY <3>1 DEF Load, TypeOK, Idle
    <3>2. CASE CheckPromotion(s)
      BY <3>2, <1>a DEF CheckPromotion, TypeOK, SessionStates
    <3>3. CASE ReadRow(s) \/ LoseInsert(s) \/ SaveRow(s) \/ RefreshRow(s)
      BY <3>3, <1>a DEF ReadRow, LoseInsert, SaveRow, RefreshRow, TypeOK, SessionStates
    <3> QED BY <1>4, <3>1, <3>2, <3>3
  <2> QED BY <1>1, <1>e, <2>1, <2>2
<1>5. ASSUME NEW s \in Sessions, Answer(s) \/ Patch(s) \/ Reconcile(s) \/ MakeAuthoritative(s)
      PROVE  BreachInv'
  <2>1. Finish(s) /\ UNCHANGED <<level, runs, changes>> /\ session[s].at = "loaded"
    BY <1>5 DEF Answer, Patch, Reconcile, MakeAuthoritative
  <2> QED BY <1>2, <1>e, <2>1
<1>6. ASSUME NEW s \in Sessions, CommitPromotion(s) PROVE BreachInv'
  <2>1. PassRateSuffices(runs) /\ session[s].to \in Levels
    BY <1>6, <1>a DEF CommitPromotion, InHand, SessionStates
  <2>2. Streak(runs) = 0
    BY <1>b, <2>1, SufficesUnbreached, StreakEnds
  <2> QED BY <1>6, <1>c, <2>1, <2>2, BreachRecord DEF CommitPromotion
<1>7. ASSUME NEW s \in Sessions, CommitDemotion(s) PROVE BreachInv'
  <2>1. Paid(session[s].to, peak, Streak(runs)) /\ session[s].to \in Levels
    BY <1>7, <1>a, <1>c DEF CommitDemotion, SessionStates
  <2> QED BY <1>7, <1>c, <2>1, BreachRecord DEF CommitDemotion
<1>8. ASSUME NEW s \in Sessions, Demote(s) PROVE BreachInv'
  <2>1. PICK to \in 1..5 : /\ session[s].at = "loaded"
                           /\ to < session[s].level
                           /\ Record(s, "demotion", to, Blank)
    BY <1>8 DEF Demote
  <2>2. to < level /\ Paid(level, peak, n)
    BY <1>a, <1>e, <2>1 DEF InHand
  <2>3. to \in Levels /\ Paid(to, peak, n)
    BY <1>b, <2>1, <2>2 DEF Paid, Levels
  <2> QED BY <1>c, <1>d, <2>1, <2>3, BreachRecord
<1>9. ASSUME NEW s \in Sessions, InsertRun(s) PROVE BreachInv'
  <2>1. PICK outcome \in Outcomes : runs' = Append(runs, outcome)
    BY <1>9 DEF InsertRun
  <2>2. session[s].at = "loaded" /\ UNCHANGED <<level, changes>> /\ session'[s].at = "ran"
    BY <1>9, <1>a DEF InsertRun, TypeOK, SessionStates
  <2>3. \A t \in Sessions : session'[t].at = "ran"
    BY <1>b, <2>2
  <2>4. runs' \in Seq(Outcomes)
    BY <1>b, <2>1
  <2>5. PICK m \in Nat : m = Streak(runs')
    BY <2>4, StreakType
  <2>6. m <= n + 1
    BY <1>b, <1>d, <2>1, <2>5, StreakGrows
  <2>7. Paid(level, peak, n)
    BY <1>e, <2>2
  <2>8. level = 1 \/ level + m <= peak + 1
    BY <1>b, <2>6, <2>7 DEF Paid, Levels
  <2>9. \A t \in Sessions : session'[t].at = "ran" => level' = 1 \/ level' + Streak(runs') <= peak + 1
    BY <2>2, <2>5, <2>8
  <2>10. IsPeak(changes', peak) /\ level' <= peak
    BY <1>c, <2>2
  <2> QED BY <1>9, <2>3, <2>9, <2>10 DEF BreachInv
<1>10. ASSUME NEW s \in Sessions, CheckFailRate(s) PROVE BreachInv'
  <2>1. /\ session[s].at = "ran" /\ session[s].level = level /\ UNCHANGED <<level, runs, changes>>
        /\ level = 1 \/ level + n <= peak + 1
    BY <1>10, <1>a, <1>c, <1>d DEF CheckFailRate, InHand
  <2>2. CASE session[s].level > 1 /\ FailRateBreached(runs)
    <3>1. session'[s] = [session[s] EXCEPT !.at = "demoting", !.to = session[s].level - 1]
      BY <1>10, <2>2 DEF CheckFailRate, TypeOK
    <3>2. session'[s].at = "demoting" /\ session'[s].to = level - 1
      BY <1>a, <2>1, <3>1 DEF SessionStates
    <3>3. Paid(level - 1, peak, n)
      BY <1>b, <2>1, <2>2 DEF Paid, Levels
    <3> QED BY <1>3, <2>1, <3>2, <3>3
  <2>3. CASE ~(session[s].level > 1 /\ FailRateBreached(runs))
    <3>1. Paid(level, peak, n)
      <4>1. CASE FailRateBreached(runs)
        BY <1>b, <2>1, <2>3, <4>1 DEF Paid, Levels
      <4>2. CASE ~FailRateBreached(runs)
        <5>1. n = 0
          BY <1>b, <1>d, <4>2, StreakEnds
        <5> QED BY <1>b, <1>c, <5>1 DEF Paid, Levels
      <4> QED BY <4>1, <4>2
    <3> QED BY <1>2, <1>10, <2>1, <2>3, <3>1 DEF CheckFailRate
  <2> QED BY <2>2, <2>3
<1>11. ASSUME NEW s \in Sessions, CheckCap(s) PROVE BreachInv'
  <2>1. /\ session[s].at = "refreshed" /\ session[s].row = verdict
        /\ UNCHANGED <<level, runs, changes>> /\ Paid(level, peak, n)
    BY <1>11, <1>a, <1>e DEF CheckCap, InHand
  <2>2. CASE RecommendedOf(verdict) < level
    <3>1. session'[s] = [session[s] EXCEPT !.at = "demoting", !.level = level, !.to = RecommendedOf(verdict)]
      BY <1>11, <2>1, <2>2 DEF CheckCap, TypeOK
    <3>2. session'[s].at = "demoting" /\ session'[s].to = RecommendedOf(verdict)
      BY <1>a, <3>1 DEF SessionStates
    <3>3. RecommendedOf(verdict) \in Levels
      BY RecommendedType DEF TypeOK
    <3>4. Paid(RecommendedOf(verdict), peak, n)
      BY <1>b, <2>1, <2>2, <3>3 DEF Paid, Levels
    <3> QED BY <1>3, <2>1, <3>2, <3>4
  <2>3. CASE ~(RecommendedOf(verdict) < level)
    BY <1>2, <1>11, <2>1, <2>3 DEF CheckCap
  <2> QED BY <2>2, <2>3
<1>12. ASSUME NEW s \in Sessions, Crash(s) PROVE BreachInv'
  BY <1>12 DEF Crash, OneAtATime
<1> QED BY <1>0, <1>4, <1>5, <1>6, <1>7, <1>8, <1>9, <1>10, <1>11, <1>12 DEF Next, Advance

\* Requests one at a time: k runs in a row that were recorded in breach leave the
\* unit k levels below its peak at least, or at L1, for every window.
THEOREM BreachesAnsweredSerially ==
    ASSUME OneAtATime
    PROVE  Spec => []BreachesAnswered
<1>1. TypeOK /\ BreachInv => BreachesAnswered
  <2> SUFFICES ASSUME TypeOK, BreachInv, \A s \in Sessions : session[s].at \in {"idle", "loaded"}
               PROVE  level = 1 \/ level <= Peak - BreachStreak
    BY DEF BreachesAnswered
  <2>1. PICK peak \in Levels : IsPeak(changes, peak) /\ Paid(level, peak, Streak(runs))
    BY DEF BreachInv
  <2>2. Peak = peak /\ BreachStreak = Streak(runs)
    BY <2>1, PeakIs, StreakIs
  <2>3. PICK n \in Nat : n = Streak(runs)
    BY StreakType DEF TypeOK
  <2>4. level \in Levels
    BY DEF TypeOK
  <2>5. level = 1 \/ level <= peak - n
    BY <2>1, <2>3, <2>4 DEF Paid, Levels
  <2> QED BY <2>2, <2>3, <2>5
<1> QED BY <1>1, SerialInit, SerialStep, BreachInit, BreachStep, TypeCorrect, PTL DEF Spec

LEMMA AuthorisedInit == Init => Authorised!Init
  BY DEF Init, Authorised!Init, Smaller, RecommendedOf

LEMMA AuthorisedStep ==
    ASSUME OneAtATime
    PROVE  TypeOK /\ SerialInv /\ [Next]_vars => [Authorised!Next]_(Authorised!vars)
<1> SUFFICES ASSUME TypeOK, SerialInv, [Next]_vars PROVE [Authorised!Next]_(Authorised!vars)
  OBVIOUS
<1>1. level \in Levels /\ RecommendedOf(verdict) \in Levels
  BY RecommendedType DEF TypeOK
<1>2. \A s \in Sessions : InHand(s)
  BY DEF SerialInv
<1>3. CASE UNCHANGED <<level, verdict>>
  BY <1>3 DEF Authorised!vars
<1>4. ASSUME NEW s \in Sessions, CommitPromotion(s) PROVE Authorised!Promote
  <2>1. level' = level + 1 /\ level' <= RecommendedOf(verdict) /\ verdict' = verdict
    BY <1>2, <1>4 DEF CommitPromotion, Record, InHand
  <2> QED BY <1>1, <2>1 DEF Authorised!Promote, Smaller, Levels
<1>5. ASSUME NEW s \in Sessions, Demote(s) PROVE Authorised!Demote
  <2>1. /\ level' \in 1..5 /\ level' < level /\ verdict' = verdict
        /\ session[s].at = "loaded"
    BY <1>2, <1>5 DEF Demote, Record, InHand
  <2>2. level <= RecommendedOf(verdict)
    BY <2>1, WithinNow
  <2> QED BY <1>1, <2>1, <2>2 DEF Authorised!Demote, Authorised!Levels, Smaller, Levels
<1>6. ASSUME NEW s \in Sessions, CommitDemotion(s)
      PROVE  Authorised!Demote \/ UNCHANGED Authorised!vars
  <2>1. /\ level' = session[s].to /\ level' < level /\ level' <= RecommendedOf(verdict)
        /\ verdict' = verdict
    BY <1>2, <1>6 DEF CommitDemotion, Record, InHand
  <2>2. level' \in Levels
    BY <2>1 DEF TypeOK, SessionStates
  <2> QED BY <1>1, <2>1, <2>2 DEF Authorised!Demote, Authorised!vars, Authorised!Levels, Smaller, Levels
<1>7. ASSUME NEW s \in Sessions, SaveRow(s) PROVE Authorised!Rescore
  <2>1. level' = level /\ session[s].at = "scoring"
    BY <1>7 DEF SaveRow
  <2>2. level <= RecommendedOf(verdict)
    BY <2>1, WithinNow
  <2>3. RecommendedOf(verdict') \in Levels
    BY TypeStep, RecommendedType DEF TypeOK
  <2> QED BY <1>1, <2>1, <2>2, <2>3 DEF Authorised!Rescore, Authorised!Levels, Smaller, Levels
<1>8. \/ UNCHANGED <<level, verdict>>
      \/ \E s \in Sessions : CommitPromotion(s) \/ Demote(s) \/ CommitDemotion(s) \/ SaveRow(s)
  BY DEF Next, Advance, vars, Load, Answer, CheckPromotion, InsertRun, CheckFailRate, ReadRow,
         LoseInsert, RefreshRow, CheckCap, Patch, Reconcile, MakeAuthoritative, Crash
<1> QED BY <1>3, <1>4, <1>5, <1>6, <1>7, <1>8 DEF Authorised!Next

\* Requests one at a time: the ladder implements the abstract register, so that
\* a re-score only ever pulls the level that counts down.
THEOREM ImplementsAuthorisedSerially ==
    ASSUME OneAtATime
    PROVE  Spec => ImplementsAuthorised
<1> QED BY AuthorisedInit, AuthorisedStep, SerialInit, SerialStep, TypeCorrect, PTL
        DEF Spec, ImplementsAuthorised, Authorised!Spec
=============================================================================
