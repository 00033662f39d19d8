------------------------------ MODULE ConsoleHooks ------------------------------
(***************************************************************************)
(* What every page of the console is built from: the tables of the         *)
(* backend, the data hooks a page mounts (useApi), and the requests under  *)
(* way.  A handler of a page and a hook's read are both jobs that wait for *)
(* one answer; answers come in any order, and an answer may be lost after  *)
(* the backend has, or has not, done the work.  The handlers themselves    *)
(* are in the modules that extend this one.                                *)
(***************************************************************************)
EXTENDS Naturals, FiniteSets, Sequences, FiniteSetsExt, SequencesExt

CONSTANTS Codes,         \* codes of work units
          Objects,       \* business objects (entity types)
          FromCandidate, \* the code of the unit made from the discovery candidate
          Nothing,       \* no selection, no argument
          FullSet,       \* passing runs a promotion needs, and Bulk create sends
          MaxActs,       \* bound: clicks that send something, and acts of other visitors
          MaxFaults      \* bound: lost answers

ASSUME NothingAssumption == Nothing \notin Codes \cup Objects
ASSUME CandidateAssumption == FromCandidate \in Codes
ASSUME ConsoleBounds == MaxActs \in Nat /\ MaxFaults \in Nat /\ FullSet \in Nat

Tables == {"units", "types", "runs", "changes", "profiles", "scores", "traces", "intent",
           "candidates", "gaps", "entities", "edges", "register", "workEdges",
           "scope", "approved", "version"}

\* The hooks of each page: useApi calls at the top of the component.
WorkUnitsHooks    == {"units", "types", "runs", "profiles"}
VerificationHooks == {"runs", "changes", "units"}
VerdictHooks      == {"scores", "units"}
EconomicsHooks    == {"profiles", "projection", "units"}
OntologyHooks     == {"types", "entities", "edges", "register"}
DiscoveryHooks    == {"traces", "intent", "candidates", "gaps", "units"}
WorkGraphHooks    == {"graph", "units"}
OverviewHooks     == {"units", "projection", "pack"}
ProjectionsHooks  == {"inventory", "graph", "contracts", "allocation", "projection"}

HooksOf == [workUnits |-> WorkUnitsHooks, verification |-> VerificationHooks,
            verdict |-> VerdictHooks, economics |-> EconomicsHooks,
            ontology |-> OntologyHooks, discovery |-> DiscoveryHooks,
            workGraph |-> WorkGraphHooks, overview |-> OverviewHooks,
            projections |-> ProjectionsHooks]

Pages == DOMAIN HooksOf
Hooks == UNION {HooksOf[p] : p \in Pages}

\* What a read of the backend is made from.
TablesOf(h) ==
  CASE h = "projection" -> {"units", "profiles", "scores"}
    [] h = "graph" -> {"units", "workEdges", "runs"}
    [] h = "pack" -> {"units", "scores", "profiles", "gaps"}
    [] h \in {"inventory", "contracts"} -> {"units"}
    [] h = "allocation" -> {"units", "scores"}
    [] OTHER -> {h}

\* A row a form wrote is known by the number of the click that sent it.  The
\* candidate of Discovery is one row, known by its status.
\* The edges of the Work Graph are kept in the order they were added.
NoRows == [t \in Tables |-> IF t = "workEdges" THEN <<>> ELSE {}]

VARIABLES page,   \* the page of the console that is mounted
          db,     \* the tenant's tables
          jobs,   \* reads and handlers that wait for an answer
          shown,  \* the data of each hook; an empty page before the first answer
          ui,     \* the state of the page's own component
          tidy,   \* history: no two handlers of the page were under way at once
          calm,   \* history: nothing failed and nobody else wrote
          acts, faults

vars == <<page, db, jobs, shown, ui, tidy, calm, acts, faults>>

View(h) == [t \in TablesOf(h) |-> db[t]]

Job(op, arg, n) == [op |-> op, arg |-> arg, n |-> n, stage |-> "sent", code |-> "none",
                    body |-> <<>>]

Load(h) == Job(h, Nothing, 0)

\* A hook's read under way.  Setting the path, the tick or the tenant cancels
\* the read before it, so there is at most one.
Loading(h) == Load(h).op \in {j.op : j \in jobs}

\* Mutant: reload asks again only when nothing is under way.
ReloadedIfIdle(hs, js) == js \cup {Load(h) : h \in {x \in hs : \A j \in js : j.op # x}}

Reloaded(hs, js) == {j \in js : j.op \notin hs} \cup {Load(h) : h \in hs}

Handlers == {j \in jobs : j.op \notin Hooks}

\* The visitor begins when all of the first reads but those of first are heard.
MountedWith(state, rows, first) ==
  /\ db = rows
  /\ jobs = {Load(h) : h \in first}
  /\ shown = [h \in HooksOf[page] |-> [t \in TablesOf(h) |-> IF h \in first THEN NoRows[t] ELSE rows[t]]]
  /\ ui = state
  /\ tidy = TRUE
  /\ calm = TRUE
  /\ acts = 0
  /\ faults = 0

\* A click that starts a handler.
Starts(op, arg) ==
  /\ acts < MaxActs
  /\ acts' = acts + 1
  /\ jobs' = jobs \cup {Job(op, arg, acts + 1)}
  /\ tidy' = (tidy /\ Handlers = {})

-----------------------------------------------------------------------------
\* The backend answers a request with a code and a body and has the tables of
\* rows after it; it may be that the answer is lost.
Answers(j, code, body, rows) ==
  \/ /\ db' = rows
     /\ jobs' = (jobs \ {j}) \cup {[j EXCEPT !.stage = "answered", !.code = code, !.body = body]}
     /\ UNCHANGED <<faults, calm>>
  \/ /\ faults < MaxFaults
     /\ faults' = faults + 1
     /\ calm' = FALSE
     /\ db' \in {db, rows}
     /\ jobs' = (jobs \ {j}) \cup {[j EXCEPT !.stage = "answered", !.code = "lost"]}

\* useApi: the answer of the latest read is shown; one that failed leaves the
\* data as it was.
ReadAnswered(j) ==
  /\ j.op \in Hooks
  /\ j.stage = "sent"
  /\ Answers(j, "ok", View(j.op), db)
  /\ UNCHANGED <<page, shown, ui, tidy, acts>>

HearRead(j) ==
  /\ j.op \in Hooks
  /\ j.stage = "answered"
  /\ jobs' = jobs \ {j}
  /\ shown' = IF j.code = "ok" THEN [shown EXCEPT ![j.op] = j.body] ELSE shown
  /\ UNCHANGED <<page, db, tidy, calm, acts, faults>>

\* Another visitor of the tenant adds a unit, or an entity type; what no hook of
\* the page reads is left alone.
Elsewhere ==
  /\ acts < MaxActs
  /\ acts' = acts + 1
  /\ calm' = FALSE
  /\ \/ \E c \in Codes \ db["units"] : db' = [db EXCEPT !["units"] = @ \cup {c}]
     \/ "types" \in HooksOf[page] /\ \E o \in Objects \ db["types"] : db' = [db EXCEPT !["types"] = @ \cup {o}]
  /\ UNCHANGED <<page, jobs, shown, ui, tidy, faults>>
=============================================================================
