------------------------------ MODULE ConsoleForms ------------------------------
(***************************************************************************)
(* The forms and buttons of the console that send one request: where each  *)
(* is offered, whether it sends the org key to a route that needs one, the *)
(* tables the route writes, and what the page asks for again afterwards.   *)
(* The handlers run without a lock: nothing but a busy flag, where there   *)
(* is one, keeps a second click from starting while the first waits.       *)
(***************************************************************************)
EXTENDS ConsoleHooks

\* needs: the route answers 401 to a request without a key; keyed: the page
\* sends the key; may: what the route writes only sometimes; draws: the tables
\* the section of the form draws.  The banners are left out.
Form(on, where, needs, keyed, writes, may, reloads, draws) ==
  [page |-> on, where |-> where, needs |-> needs, keyed |-> keyed, writes |-> writes,
   may |-> may, reloads |-> reloads, draws |-> draws]

\* Work Units.  The buttons of the selected unit send no key.
CreateUnit == Form("workUnits", "page", TRUE, FALSE, {"units"}, {}, {"units", "runs"},
                   {"units"})
Reconcile == Form("workUnits", "aside", TRUE, FALSE, {"units"}, {}, {"units", "runs"}, {})
MakeAuthoritative == Form("workUnits", "aside", TRUE, FALSE, {"units"}, {}, {"units", "runs"}, {})
Promote == Form("workUnits", "aside", TRUE, FALSE, {"units", "changes"}, {}, {"units", "runs"}, {})
Demote == Form("workUnits", "aside", TRUE, FALSE, {"units", "changes"}, {}, {"units", "runs"}, {})
RunCensus == Form("workUnits", "busy", TRUE, FALSE, {"scores", "profiles", "gaps"}, {},
                  {"units", "runs"}, {})
DownloadPack == Form("workUnits", "page", TRUE, FALSE, {}, {}, {}, {})

\* Verification: a failing run may demote the unit.
RecordRun == Form("verification", "page", FALSE, FALSE, {"runs"}, {"changes", "units"},
                  VerificationHooks, {"runs", "changes"})

\* Verdict: a cap below the authorised level demotes the unit.
\* Mutant: the units are not asked for again.
SaveScoresOnly == Form("verdict", "page", FALSE, TRUE, {"scores"}, {"changes", "units"},
                       {"scores"}, {"scores"})

SaveScores == Form("verdict", "page", FALSE, TRUE, {"scores"}, {"changes", "units"},
                   {"scores", "units"}, {"scores"})

SaveProfile == Form("economics", "page", FALSE, FALSE, {"profiles"}, {}, {"profiles", "projection"},
                    {"profiles"})

\* Ontology.
AddType   == Form("ontology", "page", FALSE, FALSE, {"types"}, {}, {"types"}, {"types"})
AddEntity == Form("ontology", "page", FALSE, FALSE, {"entities"}, {}, {"entities"}, {"entities"})
AddEdge   == Form("ontology", "page", FALSE, FALSE, {"edges"}, {}, {"edges"}, {"edges"})
AddEntry  == Form("ontology", "page", FALSE, FALSE, {"register"}, {}, {"register"}, {"register"})

\* Discovery.  An intent and a gap are sent without a company, so the lists of
\* the company, which is what the page draws, do not have them.
Suggest   == Form("discovery", "intake", FALSE, FALSE, {"intent", "candidates"}, {},
                  {"candidates", "intent"}, {})
AddTrace  == Form("discovery", "traces", FALSE, FALSE, {"traces"}, {}, {"traces"}, {"traces"})
AddIntent == Form("discovery", "intent", FALSE, FALSE, {}, {}, {"intent"}, {"intent"})

Accept == Form("discovery", "candidates", FALSE, FALSE, {"candidates", "units"}, {},
               {"candidates", "units"}, {"candidates"})

Merge  == Form("discovery", "candidates", FALSE, FALSE, {"candidates"}, {}, {"candidates"}, {})
Reject == Form("discovery", "candidates", FALSE, FALSE, {"candidates"}, {}, {"candidates"}, {})

ScanGaps  == Form("discovery", "gaps", FALSE, FALSE, {"gaps"}, {}, {"gaps"}, {})
RecordGap == Form("discovery", "gaps", FALSE, FALSE, {}, {}, {"gaps"}, {"gaps"})

AddWorkEdge == Form("workGraph", "page", FALSE, FALSE, {"workEdges"}, {}, {"graph"}, {"graph"})

PrepareDemo == Form("overview", "busy", FALSE, FALSE, {"units", "scores", "profiles", "gaps"}, {},
                    OverviewHooks, OverviewHooks)

\* Projections only draws; its download of the census pack sends no key.
ProjectionsDraws == {"inventory", "graph", "contracts", "allocation", "projection"}
DownloadProjections == Form("projections", "page", TRUE, FALSE, {}, {}, {}, ProjectionsDraws)

FormOf == [createUnit |-> CreateUnit, reconcile |-> Reconcile, promote |-> Promote,
           makeAuthoritative |-> MakeAuthoritative, demote |-> Demote, runCensus |-> RunCensus,
           downloadPack |-> DownloadPack, recordRun |-> RecordRun, saveScores |-> SaveScores,
           saveProfile |-> SaveProfile, addType |-> AddType, addEntity |-> AddEntity,
           addEdge |-> AddEdge, addEntry |-> AddEntry, suggest |-> Suggest, addTrace |-> AddTrace,
           addIntent |-> AddIntent, accept |-> Accept, merge |-> Merge, reject |-> Reject,
           scanGaps |-> ScanGaps, recordGap |-> RecordGap, addWorkEdge |-> AddWorkEdge,
           prepareDemo |-> PrepareDemo, downloadProjections |-> DownloadProjections]

Forms == DOMAIN FormOf

ASSUME HooksAreMounted ==
  \A f \in Forms : FormOf[f].draws \cup FormOf[f].reloads \subseteq HooksOf[FormOf[f].page]

DiscoveryTabs == {"intake", "traces", "intent", "candidates", "gaps"}

FormsUi == [busy |-> {}, tab |-> "intake"]

\* Mutant: a candidate keeps its buttons, whatever became of it.
OfferedWhateverStatus(f) ==
  LET form == FormOf[f] IN
    /\ form.page = page
    /\ form.where \in DiscoveryTabs => ui.tab = form.where
    /\ form.where = "busy" => f \notin ui.busy
    /\ form.where = "aside" => ui.sel \in shown["units"].units
    /\ f = "addEntity" => shown["types"].types # {}
    /\ f \in {"merge", "saveScores", "saveProfile"} => shown["units"].units # {}

\* A section is on screen; a button with a busy flag is not pressed twice; a
\* candidate has buttons while it is drawn as new; a select offers what its
\* hook last heard.
Offered(f) ==
  LET form == FormOf[f] IN
    /\ form.page = page
    /\ form.where \in DiscoveryTabs => ui.tab = form.where
    /\ form.where = "busy" => f \notin ui.busy
    /\ form.where = "aside" => ui.sel \in shown["units"].units
    /\ form.where = "candidates" => ~Loading("candidates") /\ "new" \in shown["candidates"].candidates
    /\ f = "addEntity" => shown["types"].types # {}
    /\ f \in {"merge", "saveScores", "saveProfile"} => shown["units"].units # {}

\* The selects of a form that the tables depend on: the ends of an edge.
Args(f) == IF f = "addWorkEdge" THEN shown["units"].units \X shown["units"].units ELSE {Nothing}

Submit(f) ==
  /\ Offered(f)
  /\ \E arg \in Args(f) : Starts(f, arg)
  /\ ui' = IF FormOf[f].where = "busy" THEN [ui EXCEPT !.busy = @ \cup {f}] ELSE ui
  /\ UNCHANGED <<page, db, shown, calm, faults>>

SwitchTab ==
  /\ page = "discovery"
  /\ \E t \in DiscoveryTabs \ {ui.tab} : ui' = [ui EXCEPT !.tab = t]
  /\ UNCHANGED <<page, db, jobs, shown, tidy, calm, acts, faults>>

\* The tables after the route of f has done its work: n is its row.  Rejecting
\* and merging do not look at the candidate's status, accepting does.
Written(ts, n) == [t \in Tables |-> IF t \in ts THEN db[t] \cup {n} ELSE db[t]]

After(f, arg, n) ==
  CASE f = "addWorkEdge" -> {[db EXCEPT !["workEdges"] = Append(@, arg)]}
    [] f = "accept" ->
         {[db EXCEPT !["candidates"] = {"merged"}, !["units"] = @ \cup {FromCandidate}]}
    [] f = "merge" -> {[db EXCEPT !["candidates"] = {"merged"}]}
    [] f = "reject" -> {[db EXCEPT !["candidates"] = {"rejected"}]}
    [] f = "suggest" ->
         {[Written({"intent"}, n) EXCEPT !["candidates"] = IF @ = {} THEN {"new"} ELSE @]}
    [] OTHER -> {Written(FormOf[f].writes, n), Written(FormOf[f].writes \cup FormOf[f].may, n)}

Allowed(f, arg) == /\ f = "accept" => db["candidates"] = {"new"}
                   /\ f = "addWorkEdge" => arg[1] # arg[2]

FormServed(j) ==
  /\ j.op \in Forms
  /\ j.stage = "sent"
  /\ IF FormOf[j.op].needs /\ ~FormOf[j.op].keyed
     THEN Answers(j, "unauthorised", <<>>, db)
     ELSE \/ Answers(j, "refused", <<>>, db)
          \/ Allowed(j.op, j.arg) /\ \E rows \in After(j.op, j.arg, j.n) : Answers(j, "ok", <<>>, rows)
  /\ UNCHANGED <<page, shown, ui, tidy, acts>>

\* Mutant: a failure leaves the button dead.
ReleasedIfOk(busy, j) == IF j.code = "ok" THEN busy \ {j.op} ELSE busy

Released(busy, j) == busy \ {j.op}

\* run and act: the reloads after a success, none after a failure.
HearForm(j) ==
  /\ j.op \in Forms
  /\ j.stage = "answered"
  /\ jobs' = IF j.code = "ok" THEN Reloaded(FormOf[j.op].reloads, jobs \ {j}) ELSE jobs \ {j}
  /\ ui' = [ui EXCEPT !.busy = Released(@, j),
                      !.tab = IF j.op = "suggest" /\ j.code = "ok" THEN "candidates" ELSE @]
  /\ UNCHANGED <<page, db, shown, tidy, calm, acts, faults>>
=============================================================================
