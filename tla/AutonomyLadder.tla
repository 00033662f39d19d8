--------------------------- MODULE AutonomyLadder ---------------------------
(***************************************************************************)
(* The autonomy ladder of one work unit: services/promotion.py, the        *)
(* verdict, verification and work-unit endpoints that reach it, and the    *)
(* rows they share.                                                        *)
(*                                                                         *)
(* A session is one request on one database session.  It loads the unit    *)
(* row once and keeps the loaded values (expire_on_commit=False), reads    *)
(* other rows when it needs them, and writes when it commits, so every     *)
(* handler is a read step followed by later steps, and other sessions may  *)
(* commit in between.  Which request a session serves shows at its second  *)
(* step: all of them begin with the same load.                             *)
(***************************************************************************)
EXTENDS Verdict, Sequences, FiniteSets

CONSTANTS Sessions,     \* request slots
          Scorings,     \* the forms of seven scores a PUT may carry
          Contracts,    \* the contract facts a create or a PATCH may set
          PatchStatuses,\* the statuses a PATCH may set
          Outcomes,     \* the outcomes a verification run may carry
          Approvers,    \* the texts approved_by may carry
          Blank,        \* the one of them that is only spaces, if it is there
          NoVerdict,    \* "no verdict_scores row"
          Window,       \* pass_rate's limit
          MinRuns,      \* settings.promotion_min_runs
          MayCrash,     \* whether the process may die inside a request
          MaxRuns,      \* bound: verification runs recorded
          MaxChanges    \* bound: audit rows after which no request starts

Statuses == {"draft", "reconciled", "authoritative"}

\* evidence: evidence_required is not blank; licensed: the linked regulatory
\* entry requires a licensed human; complete: every other attribute is filled.
ContractFacts == [evidence : BOOLEAN, licensed : BOOLEAN, complete : BOOLEAN]

Rows == [scores : Scores, recommended : Levels, gates : SUBSET Gates]

ASSUME ScoringsAssumption == Scorings \subseteq Scores
ASSUME ContractsAssumption == Contracts \subseteq ContractFacts
ASSUME StatusesAssumption == PatchStatuses \subseteq Statuses
ASSUME OutcomesAssumption == Outcomes \subseteq {"passed", "failed", "inconclusive"}
ASSUME NoVerdictAssumption == NoVerdict \notin Rows
ASSUME BoundsAssumption == /\ Window \in Nat \ {0} /\ MinRuns \in Nat
                           /\ MaxRuns \in Nat /\ MaxChanges \in Nat
                           /\ MayCrash \in BOOLEAN

VARIABLES level,    \* work_units.autonomy_level
          status,   \* work_units.status
          contract, \* the facts of the rest of the work_units row
          verdict,  \* the unit's verdict_scores row
          runs,     \* outcomes of verification_runs, oldest first
          changes,  \* autonomy_changes, oldest first
          session   \* what each session has loaded and where it stands

vars == <<level, status, contract, verdict, runs, changes, session>>

Changes == [kind : {"promotion", "demotion"}, from : Levels, to : Levels,
            approved_by : Approvers \cup {Blank}]

Stages == {"idle", "loaded", "scoring", "scored", "refreshed", "ran", "promoting", "demoting"}

\* The values a session holds: the unit row (level, status, contract), the
\* verdict row once read, and the change it is about to record.
SessionStates == [at : Stages, level : Levels, status : Statuses, contract : ContractFacts,
                  row : Rows \cup {NoVerdict}, to : Levels, approved_by : Approvers \cup {Blank}]

Idle == [at |-> "idle", level |-> 1, status |-> "draft",
         contract |-> [evidence |-> FALSE, licensed |-> FALSE, complete |-> FALSE],
         row |-> NoVerdict, to |-> 1, approved_by |-> Blank]

\* create_unit: status and level take the model's defaults.
Init == /\ level = 1
        /\ status = "draft"
        /\ contract \in Contracts
        /\ verdict = NoVerdict
        /\ runs = <<>>
        /\ changes = <<>>
        /\ session = [s \in Sessions |-> Idle]

-----------------------------------------------------------------------------
RecommendedOf(row) == IF row = NoVerdict THEN 1 ELSE row.recommended

\* pass_rate: the last Window runs.
Recent(history) == IF Len(history) <= Window
                   THEN history
                   ELSE SubSeq(history, Len(history) - Window + 1, Len(history))

Passed(history) == Cardinality({i \in DOMAIN Recent(history) : Recent(history)[i] = "passed"})

Counted(history) == Len(Recent(history))

\* rate >= 0.95 on at least MinRuns runs.
PassRateSuffices(history) == /\ Counted(history) >= MinRuns
                             /\ Counted(history) > 0
                             /\ 100 * Passed(history) >= 95 * Counted(history)

\* 1.0 - rate >= 0.10 on at least three runs.  In binary floating point
\* 1.0 - 9/10 and 1.0 - 18/20 fall below 0.10, and no other quotient of up to
\* 20 runs is a tie, so the comparison the program makes is the strict one.
FailRateBreached(history) ==
    /\ Counted(history) >= 3
    /\ 10 * (Counted(history) - Passed(history)) > Counted(history)

\* An UPDATE carries the columns whose new value differs from the loaded one.
Written(loaded, current, new) == IF new = loaded THEN current ELSE new

\* Mutant: persist_derivation forgets the recommendation.
MergedRowKeepsLevel(loaded, current, new) ==
    [scores |-> [p \in PROPERTIES |->
                    Written(loaded.scores[p], current.scores[p], new.scores[p])],
     recommended |-> current.recommended,
     gates |-> Written(loaded.gates, current.gates, new.gates)]

MergedRow(loaded, current, new) ==
    [scores |-> [p \in PROPERTIES |->
                    Written(loaded.scores[p], current.scores[p], new.scores[p])],
     recommended |-> Written(loaded.recommended, current.recommended, new.recommended),
     gates |-> Written(loaded.gates, current.gates, new.gates)]

MergedContract(loaded, current, new) ==
    [evidence |-> Written(loaded.evidence, current.evidence, new.evidence),
     licensed |-> Written(loaded.licensed, current.licensed, new.licensed),
     complete |-> Written(loaded.complete, current.complete, new.complete)]

MachineReadable(facts) == facts.evidence /\ facts.complete

Finish(s) == session' = [session EXCEPT ![s] = Idle]

-----------------------------------------------------------------------------
\* get_or_404, the first statement of every handler.
Load(s) == /\ session[s].at = "idle"
           /\ Len(changes) < MaxChanges
           /\ session' = [session EXCEPT ![s] =
                            [Idle EXCEPT !.at = "loaded", !.level = level,
                                         !.status = status, !.contract = contract]]
           /\ UNCHANGED <<level, status, contract, verdict, runs, changes>>

\* A GET, or any request that a rule turns away (422): nothing is written.
Answer(s) == /\ session[s].at = "loaded"
             /\ Finish(s)
             /\ UNCHANGED <<level, status, contract, verdict, runs, changes>>

\* promote: the checks.  The verdict row and the runs are read one after the
\* other; a commit between the two reads could as well fall before both (a run)
\* or after both (a score), so they are one step.
CheckPromotion(s) ==
    \E to \in Levels, approver \in Approvers :
        /\ session[s].at = "loaded"
        /\ approver # Blank
        /\ to = session[s].level + 1
        /\ to <= RecommendedOf(verdict)
        /\ PassRateSuffices(runs)
        /\ session' = [session EXCEPT ![s].at = "promoting", ![s].to = to,
                                      ![s].approved_by = approver]
        /\ UNCHANGED <<level, status, contract, verdict, runs, changes>>

\* Mutants: the audit row is built after the level was set; a demotion takes the
\* lower of the stored and the new level, whatever the audit row says.
RecordLate(s, kind, to, approver) ==
    /\ changes' = Append(changes, [kind |-> kind, from |-> to, to |-> to,
                                   approved_by |-> approver])
    /\ level' = to
    /\ Finish(s)
    /\ UNCHANGED <<status, contract, verdict, runs>>

RecordLower(s, kind, to, approver) ==
    /\ changes' = Append(changes, [kind |-> kind, from |-> session[s].level, to |-> to,
                                   approved_by |-> approver])
    /\ level' = IF kind = "demotion" THEN Smaller(level, to) ELSE to
    /\ Finish(s)
    /\ UNCHANGED <<status, contract, verdict, runs>>

\* _record: the audit row and the level, in one commit.
Record(s, kind, to, approver) ==
    /\ changes' = Append(changes, [kind |-> kind, from |-> session[s].level, to |-> to,
                                   approved_by |-> approver])
    /\ level' = to
    /\ Finish(s)
    /\ UNCHANGED <<status, contract, verdict, runs>>

\* Mutant: the audit row leaves the approver out.
CommitPromotionUnsigned(s) == /\ session[s].at = "promoting"
                              /\ Record(s, "promotion", session[s].to, Blank)

CommitPromotion(s) == /\ session[s].at = "promoting"
                      /\ Record(s, "promotion", session[s].to, session[s].approved_by)

\* Mutant: the new level need not be lower.
DemoteAnywhere(s) == \E to \in 1..5 :
                        /\ session[s].at = "loaded"
                        /\ Record(s, "demotion", to, Blank)

\* POST demote: a person lowers the level to any lower one.
Demote(s) == \E to \in 1..5 :
                /\ session[s].at = "loaded"
                /\ to < session[s].level
                /\ Record(s, "demotion", to, Blank)

CommitDemotion(s) == /\ session[s].at = "demoting"
                     /\ Record(s, "demotion", session[s].to, Blank)

\* create_run: the run is committed, then maybe_autodemote looks at the rate.
InsertRun(s) == \E outcome \in Outcomes :
                    /\ session[s].at = "loaded"
                    /\ Len(runs) < MaxRuns
                    /\ runs' = Append(runs, outcome)
                    /\ session' = [session EXCEPT ![s].at = "ran"]
                    /\ UNCHANGED <<level, status, contract, verdict, changes>>

\* Mutants: the floor is L2; there is no floor.
CheckFailRateHighFloor(s) ==
    /\ session[s].at = "ran"
    /\ IF session[s].level > 2 /\ FailRateBreached(runs)
       THEN session' = [session EXCEPT ![s].at = "demoting", ![s].to = session[s].level - 1]
       ELSE Finish(s)
    /\ UNCHANGED <<level, status, contract, verdict, runs, changes>>

CheckFailRateNoFloor(s) ==
    /\ session[s].at = "ran"
    /\ IF FailRateBreached(runs)
       THEN session' = [session EXCEPT ![s].at = "demoting", ![s].to = session[s].level - 1]
       ELSE Finish(s)
    /\ UNCHANGED <<level, status, contract, verdict, runs, changes>>

\* The rate is read afresh, the level is the one loaded with the request.
CheckFailRate(s) ==
    /\ session[s].at = "ran"
    /\ IF session[s].level > 1 /\ FailRateBreached(runs)
       THEN session' = [session EXCEPT ![s].at = "demoting", ![s].to = session[s].level - 1]
       ELSE Finish(s)
    /\ UNCHANGED <<level, status, contract, verdict, runs, changes>>

\* apply_verdict: the row the session will update, if there is one.
ReadRow(s) == /\ session[s].at = "loaded"
              /\ session' = [session EXCEPT ![s].at = "scoring", ![s].row = verdict]
              /\ UNCHANGED <<level, status, contract, verdict, runs, changes>>

\* Two first scores: the loser of the insert reads the winner's row instead.
LoseInsert(s) == /\ session[s].at = "scoring"
                 /\ session[s].row = NoVerdict
                 /\ verdict # NoVerdict
                 /\ session' = [session EXCEPT ![s].row = verdict]
                 /\ UNCHANGED <<level, status, contract, verdict, runs, changes>>

\* The derivation reads the contract as it was loaded, and the commit writes
\* the columns that differ from the row as it was read.
SaveRow(s) ==
    \E scores \in Scorings :
        LET new == DeriveAutonomy(scores, session[s].contract.licensed,
                                  session[s].contract.evidence)
        IN  /\ session[s].at = "scoring"
            /\ session[s].row # NoVerdict \/ verdict = NoVerdict
            /\ verdict' = IF verdict = NoVerdict
                          THEN new
                          ELSE MergedRow(session[s].row, verdict, new)
            /\ session' = [session EXCEPT ![s].at = "scored"]
            /\ UNCHANGED <<level, status, contract, runs, changes>>

\* Mutant: the row is not refreshed before the comparison.
RefreshRowForgotten(s) == /\ session[s].at = "scored"
                          /\ session' = [session EXCEPT ![s].at = "refreshed"]
                          /\ UNCHANGED <<level, status, contract, verdict, runs, changes>>

\* After the commit the row is read again, and the unit in a SELECT of its own:
\* another session may commit in between.
RefreshRow(s) == /\ session[s].at = "scored"
                 /\ session' = [session EXCEPT ![s].at = "refreshed", ![s].row = verdict]
                 /\ UNCHANGED <<level, status, contract, verdict, runs, changes>>

\* maybe_demote_to_recommendation, on the row and the unit as refreshed.
CheckCap(s) ==
    /\ session[s].at = "refreshed"
    /\ IF RecommendedOf(session[s].row) < level
       THEN session' = [session EXCEPT ![s].at = "demoting", ![s].level = level,
                                       ![s].to = RecommendedOf(session[s].row)]
       ELSE Finish(s)
    /\ UNCHANGED <<level, status, contract, verdict, runs, changes>>

\* PATCH: no field of the unit re-derives the verdict.
Patch(s) ==
    /\ session[s].at = "loaded"
    /\ \E new \in Contracts : contract' = MergedContract(session[s].contract, contract, new)
    /\ \E new \in PatchStatuses \cup {session[s].status} :
          status' = Written(session[s].status, status, new)
    /\ Finish(s)
    /\ UNCHANGED <<level, verdict, runs, changes>>

Reconcile(s) == /\ session[s].at = "loaded"
                /\ session[s].status = "draft"
                /\ status' = "reconciled"
                /\ Finish(s)
                /\ UNCHANGED <<level, contract, verdict, runs, changes>>

MakeAuthoritative(s) == /\ session[s].at = "loaded"
                        /\ session[s].status = "reconciled"
                        /\ \E i \in DOMAIN runs : runs[i] = "passed"
                        /\ MachineReadable(session[s].contract)
                        /\ status' = "authoritative"
                        /\ Finish(s)
                        /\ UNCHANGED <<level, contract, verdict, runs, changes>>

\* The process dies inside a request: what it has not committed is lost.
Crash(s) == /\ MayCrash
            /\ session[s].at # "idle"
            /\ Finish(s)
            /\ UNCHANGED <<level, status, contract, verdict, runs, changes>>

\* A request in hand runs to its end.
Advance(s) == \/ Answer(s) \/ CheckPromotion(s) \/ CommitPromotion(s)
              \/ Demote(s) \/ CommitDemotion(s) \/ InsertRun(s) \/ CheckFailRate(s)
              \/ ReadRow(s) \/ LoseInsert(s) \/ SaveRow(s) \/ RefreshRow(s) \/ CheckCap(s)
              \/ Patch(s) \/ Reconcile(s) \/ MakeAuthoritative(s)

Next == \E s \in Sessions : Load(s) \/ Advance(s) \/ Crash(s)

Spec == Init /\ [][Next]_vars

FairSpec == Spec /\ \A s \in Sessions : WF_vars(Advance(s))

-----------------------------------------------------------------------------
TypeOK == /\ level \in Levels
          /\ status \in Statuses
          /\ contract \in ContractFacts
          /\ verdict \in Rows \cup {NoVerdict}
          /\ runs \in Seq(Outcomes)
          /\ changes \in Seq(Changes)
          /\ session \in [Sessions -> SessionStates]

\* The audit trail accounts for the level: the newest row of autonomy_changes
\* ends at the level the unit runs at, whatever sessions interleave or die.
AuditTail == level = IF changes = <<>> THEN 1 ELSE changes[Len(changes)].to

\* Nobody climbs a rung unapproved: for every level the unit stands on, down to
\* L2, the trail holds a promotion to that level that names its approver.
Earned(log, l) == \A k \in 2..l : \E i \in DOMAIN log :
                      /\ log[i].kind = "promotion"
                      /\ log[i].to = k
                      /\ log[i].approved_by # Blank

LevelsEarned == Earned(changes, level)

\* The rows chain: each change starts at the level the one before it ended at.
AuditChain == \A i \in DOMAIN changes :
    changes[i].from = IF i = 1 THEN 1 ELSE changes[i - 1].to

\* Outside a re-score, from its first commit to the demotion that answers it, the
\* unit never runs above its recommendation.
LevelWithinRecommended ==
    (\A s \in Sessions : session[s].at \notin {"scored", "refreshed", "demoting"})
        => level <= RecommendedOf(verdict)

\* When the level rises, it rises by one, to a level the verdict of that moment
\* allows, on a pass rate that suffices at that moment, and a promotion row of
\* the same commit says so: no score, no failure and no demotion ever raises it.
RaisesAreEarned ==
    [][level' > level => /\ level' = level + 1
                         /\ level' <= RecommendedOf(verdict)
                         /\ PassRateSuffices(runs)
                         /\ changes' # changes
                         /\ changes'[Len(changes')].kind = "promotion"]_vars

\* The highest level the unit has stood at.
Peak == CHOOSE l \in {1} \cup {changes[i].to : i \in DOMAIN changes} :
            \A i \in DOMAIN changes : changes[i].to <= l

\* How many of the newest runs in a row were recorded in breach.
BreachStreak ==
    Cardinality({j \in DOMAIN runs :
                    \A k \in j..Len(runs) : FailRateBreached(SubSeq(runs, 1, k))})

\* Each run recorded while the failure rate is in breach costs the unit a level,
\* until it is at L1: k such runs in a row leave it at least k below its peak.
BreachesAnswered ==
    (\A s \in Sessions : session[s].at \in {"idle", "loaded"})
        => level = 1 \/ level <= Peak - BreachStreak

\* The stored verdict row yields a scenario strip in order: its columns all come
\* from one derivation.
StoredStripMonotonic == verdict # NoVerdict => ScenarioMonotonic(ScenarioLevels(verdict))

\* A unit whose recommendation falls below its level is brought down to it,
\* without anyone asking.
CapEnforced == level > RecommendedOf(verdict) ~> level <= RecommendedOf(verdict)

\* The ladder is the register of AuthorisedLevel, a re-score and the demotion
\* that follows it being one step: until the demotion commits, the level that
\* counts is the recommendation.
Authorised == INSTANCE AuthorisedLevel WITH
                  level <- Smaller(level, RecommendedOf(verdict)),
                  recommended <- RecommendedOf(verdict)

ImplementsAuthorised == Authorised!Spec

\* ARCHITECTURE.md: VERDICT and failure rates may only lower the level.
OnlyPromotionRaises ==
    [][level' > level => /\ changes' # changes
                         /\ changes'[Len(changes')].kind = "promotion"]_vars

\* ARCHITECTURE.md: a gate that the contract trips caps the authorised level.
GatesHold == (\A s \in Sessions : session[s].at = "idle")
                 => (contract.licensed \/ ~contract.evidence => level <= 2)
=============================================================================
