----------------------------- MODULE ConsoleProofs -----------------------------
(***************************************************************************)
(* Theorems of Console for every set of codes, objects, groups, workbooks  *)
(* and seeds, and every bound.  A page shows what it wrote because each    *)
(* hook is fresh, or a handler under way owes it a read (FreshInv): the    *)
(* handlers give this to each other however they overlap.  An upload comes *)
(* to account for its rows because one step of it is under way at most,    *)
(* and that step is about the row that the upload has come to (UploadInv). *)
(* The canvas of the Work Graph is sound because what it draws is a graph  *)
(* of all units (GraphInv), and because each turn of the search pops one   *)
(* node more, whose edges alone have gone to the right (Searched).         *)
(***************************************************************************)
EXTENDS Console, WellFoundedInduction, FiniteSetTheorems, SequenceTheorems, TLAPS

(* Names.                                                                  *)

LEMMA FormsNamed ==
  Forms = {"createUnit", "reconcile", "promote", "makeAuthoritative", "demote", "runCensus",
           "downloadPack", "recordRun", "saveScores", "saveProfile", "addType", "addEntity",
           "addEdge", "addEntry", "suggest", "addTrace", "addIntent", "accept", "merge", "reject",
           "scanGaps", "recordGap", "addWorkEdge", "prepareDemo", "downloadProjections"}
BY DEF Forms, FormOf

LEMMA PagesNamed ==
  Pages = {"workUnits", "verification", "verdict", "economics", "ontology", "discovery",
           "workGraph", "overview", "projections"}
BY DEF Pages, HooksOf

LEMMA HooksNamed ==
  Hooks \subseteq {"units", "types", "runs", "profiles", "changes", "scores", "projection", "entities",
                   "edges", "register", "traces", "intent", "candidates", "gaps", "graph", "pack",
                   "inventory", "contracts", "allocation"}
<1>1. \A p \in Pages : HooksOf[p] \subseteq 
                  {"units", "types", "runs", "profiles", "changes", "scores", "projection", "entities",
                   "edges", "register", "traces", "intent", "candidates", "gaps", "graph", "pack",
                   "inventory", "contracts", "allocation"}
  BY PagesNamed DEF HooksOf, WorkUnitsHooks, VerificationHooks, VerdictHooks, EconomicsHooks,
     OntologyHooks, DiscoveryHooks, WorkGraphHooks, OverviewHooks, ProjectionsHooks
<1> QED BY <1>1 DEF Hooks

\* No name stands for two of a read, a form, a step of an upload and the runs
\* of Bulk create.
LEMMA NamesApart ==
  /\ Forms \cap Hooks = {}
  /\ UploadSteps \cap Hooks = {}
  /\ UploadSteps \cap Forms = {}
  /\ "bulk" \notin Hooks \cup Forms \cup UploadSteps
  /\ "upload" \notin Hooks \cup Forms \cup UploadSteps
<1>1. Forms \cap Hooks = {}
  BY FormsNamed, HooksNamed
<1>2. UploadSteps \cap Hooks = {}
  BY HooksNamed DEF UploadSteps
<1>3. UploadSteps \cap Forms = {}
  BY FormsNamed DEF UploadSteps
<1>4. "bulk" \notin Hooks /\ "upload" \notin Hooks
  BY HooksNamed
<1>5. "bulk" \notin Forms \cup UploadSteps /\ "upload" \notin Forms \cup UploadSteps
  BY FormsNamed DEF UploadSteps
<1> QED BY <1>1, <1>2, <1>3, <1>4, <1>5

JobShape(j) == j = [op |-> j.op, arg |-> j.arg, n |-> j.n, stage |-> j.stage, code |-> j.code,
                    body |-> j.body]

\* What a page may have under way: the reads of its hooks, its forms, the
\* upload and Bulk create where it has them.
Ops == HooksOf[page] \cup {f \in Forms : FormOf[f].page = page}
         \cup (IF page = "workUnits" THEN UploadSteps ELSE {})
         \cup (IF page \in {"workUnits", "verification"} THEN {"bulk"} ELSE {})

ShapeInv ==
  /\ page \in Pages
  /\ DOMAIN db = Tables
  /\ DOMAIN shown = HooksOf[page]
  /\ {"busy", "tab"} \subseteq DOMAIN ui
  /\ page = "workUnits" => {"sel", "search", "expanded", "collapsed", "upload"} \subseteq DOMAIN ui
  /\ ui.busy \subseteq Forms \cup {"bulk", "upload"}
  /\ \A j \in jobs : /\ JobShape(j) /\ j.op \in Ops /\ j.stage \in {"sent", "answered"}
                     /\ j.op = "bulk" => j.arg \in Nat \ {0}

ReadInv ==
  /\ \A j \in jobs : j.op \in Hooks /\ j.stage = "sent" => j = Load(j.op)
  /\ \A j, k \in jobs : j.op \in Hooks /\ j.op = k.op => j = k
  /\ calm => \A j \in jobs : j.op \in Hooks /\ j.stage = "answered" => j.code = "ok"

Fresh(h) ==
  \/ Load(h) \in jobs
  \/ \E j \in jobs : j.op = h /\ j.stage = "answered" /\ j.code = "ok" /\ j.body = View(h)
  \/ (\A j \in jobs : j.op # h) /\ shown[h] = View(h)

Succeeded(j) == j.stage = "answered" /\ j.code = "ok"

Owes(j, h) ==
  \/ j.op \in Forms /\ Succeeded(j) /\ h \in FormOf[j.op].reloads
  \/ j.op \in UploadSteps /\ h \in {"units", "types"}
  \/ j.op = "bulk" /\ h = "runs" /\ (j.arg > 1 \/ Succeeded(j))

FreshInv == calm => \A h \in HooksOf[page] : Fresh(h) \/ \E j \in jobs : Owes(j, h)

OneHandler == tidy => \A j, k \in Handlers : j = k

CandidateInv ==
  /\ db["candidates"] \in {{}, {"new"}, {"merged"}, {"rejected"}}
  /\ page = "discovery" /\ calm /\ tidy =>
       /\ FromCandidate \in db["units"] => db["candidates"] = {"merged"}
       /\ \A j \in jobs : j.op \in {"accept", "merge", "reject"} /\ j.stage = "sent" => db["candidates"] = {"new"}
  /\ page # "discovery" => db["candidates"] = {}

UnitsSeen ==
  /\ shown["units"].units \subseteq db["units"]
  /\ \A j \in jobs : j.op = "units" /\ Succeeded(j) => j.body.units \subseteq db["units"]

\* The counts of an upload, over the units there are.
Counted(u, units) ==
  /\ {"rows", "at", "known", "cache", "created", "existing", "failed"} \subseteq DOMAIN u
  /\ u.rows \in Seq(Rows) /\ u.at \in Nat /\ 1 <= u.at /\ u.at <= Len(u.rows) + 1
  /\ u.created \in Seq(Codes \cup {Nothing}) /\ u.existing \in Seq(Codes \cup {Nothing})
  /\ u.failed \in Seq(Codes \cup {Nothing})
  /\ Len(u.created) + Len(u.existing) + Len(u.failed) = u.at - 1
  /\ \A i, k \in DOMAIN u.created : u.created[i] = u.created[k] => i = k
  /\ ToSet(u.created) \subseteq u.known
  /\ ToSet(u.existing) \subseteq units
  /\ u.known \subseteq units

\* A step of an upload is about the row that the upload is at, which is new.
StepFits(j, u, units, types) ==
  /\ u.at <= Len(u.rows)
  /\ Code(u) \notin u.known
  /\ j.arg = IF j.op = "uploadUnit" THEN Code(u) ELSE KeyOf(u.rows[u.at])
  /\ j.op = "uploadUnit" /\ j.stage = "answered" /\ j.code \in {"ok", "conflict"} => j.arg \in units
  /\ j.op = "uploadType" /\ j.stage = "answered" /\ j.code = "conflict" => j.arg \in types
  /\ j.op = "uploadReread" => /\ j.arg \in types
                              /\ j.code # "conflict"
                              /\ Succeeded(j) => j.arg \in j.body.types

\* The steps of uploads among js, while the upload has come to u: there is one
\* at most, while the button is dead.
UploadAt(js, u, busy, units, types) ==
  /\ Counted(u, units)
  /\ \A j, k \in js : j.op \in UploadSteps /\ k.op \in UploadSteps => j = k
  /\ \A j \in js : j.op \in UploadSteps => "upload" \in busy /\ StepFits(j, u, units, types)

UploadInv ==
  page = "workUnits" => UnitsSeen /\ UploadAt(jobs, ui.upload, ui.busy, db["units"], db["types"])

-----------------------------------------------------------------------------
(* What a form writes, and what its page asks for again.                   *)

\* A form whose route answers it: the key is sent where one is needed.
Answerable(f) == ~(FormOf[f].needs /\ ~FormOf[f].keyed)

LEMMA FormsSend ==
  \A f \in Forms :
    /\ FormOf[f].page \in Pages
    /\ FormOf[f].reloads \subseteq HooksOf[FormOf[f].page]
<1>1. \A f \in Forms : FormOf[f].page \in Pages
  BY FormsNamed, PagesNamed DEF FormOf, Form, CreateUnit, Reconcile, MakeAuthoritative, Promote, Demote, RunCensus,
     DownloadPack, RecordRun, SaveScores, SaveProfile, AddType, AddEntity, AddEdge, AddEntry, Suggest,
     AddTrace, AddIntent, Accept, Merge, Reject, ScanGaps, RecordGap, AddWorkEdge, PrepareDemo,
     DownloadProjections
<1> QED BY <1>1, HooksAreMounted

\* A hook that a page with the form f mounts either reads nothing that the
\* route of f writes, or is asked for again.
LEMMA WritesAreReloaded ==
  ASSUME NEW f \in Forms, Answerable(f), NEW h \in HooksOf[FormOf[f].page], h \notin FormOf[f].reloads
  PROVE  TablesOf(h) \cap (FormOf[f].writes \cup FormOf[f].may) = {}
<1> USE DEF TablesOf, Form, Answerable
<1>1. CASE f \in {"createUnit", "reconcile", "promote", "makeAuthoritative", "demote", "runCensus",
                  "downloadPack", "downloadProjections"}
  BY <1>1 DEF FormOf, CreateUnit, Reconcile, MakeAuthoritative, Promote, Demote, RunCensus,
     DownloadPack, DownloadProjections
<1>2. CASE f = "recordRun"
  BY <1>2 DEF FormOf, RecordRun, HooksOf
<1>3. CASE f = "saveScores"
  BY <1>3 DEF FormOf, SaveScores, HooksOf, VerdictHooks
<1>4. CASE f = "saveProfile"
  BY <1>4 DEF FormOf, SaveProfile, HooksOf, EconomicsHooks
<1>5. CASE f \in {"addType", "addEntity", "addEdge", "addEntry"}
  BY <1>5 DEF FormOf, AddType, AddEntity, AddEdge, AddEntry, HooksOf, OntologyHooks
<1>6. CASE f \in {"suggest", "addTrace", "addIntent", "accept", "merge", "reject", "scanGaps", "recordGap"}
  BY <1>6 DEF FormOf, Suggest, AddTrace, AddIntent, Accept, Merge, Reject, ScanGaps, RecordGap, HooksOf,
     DiscoveryHooks
<1>7. CASE f = "addWorkEdge"
  BY <1>7 DEF FormOf, AddWorkEdge, HooksOf, WorkGraphHooks
<1>8. CASE f = "prepareDemo"
  BY <1>8 DEF FormOf, PrepareDemo, HooksOf
<1> QED BY FormsNamed, <1>1, <1>2, <1>3, <1>4, <1>5, <1>6, <1>7, <1>8

\* The tables after the route of f differ from the ones before in tables of
\* its form only.
LEMMA AfterWrites ==
  ASSUME NEW f \in Forms, NEW arg, NEW n, DOMAIN db = Tables, NEW rows \in After(f, arg, n)
  PROVE  /\ DOMAIN rows = Tables
         /\ \A t \in Tables \ (FormOf[f].writes \cup FormOf[f].may) : rows[t] = db[t]
<1> USE DEF After, Written
<1>0. {"units", "candidates", "intent", "workEdges"} \subseteq Tables
  BY DEF Tables
<1>1. CASE f = "addWorkEdge"
  BY <1>0, <1>1 DEF FormOf, AddWorkEdge, Form
<1>2. CASE f = "accept"
  BY <1>0, <1>2 DEF FormOf, Accept, Form
<1>3. CASE f = "merge"
  BY <1>0, <1>3 DEF FormOf, Merge, Form
<1>4. CASE f = "reject"
  BY <1>0, <1>4 DEF FormOf, Reject, Form
<1>5. CASE f = "suggest"
  BY <1>0, <1>5 DEF FormOf, Suggest, Form
<1>6. CASE f \notin {"addWorkEdge", "accept", "merge", "reject", "suggest"}
  BY <1>6
<1> QED BY <1>1, <1>2, <1>3, <1>4, <1>5, <1>6

\* The candidate is written by forms of Discovery only, and of those only
\* accepting writes a unit.
LEMMA CandidateWriters ==
  ASSUME NEW f \in Forms
  PROVE  /\ FormOf[f].page # "discovery" => "candidates" \notin FormOf[f].writes \cup FormOf[f].may
         /\ FormOf[f].page = "discovery" /\ f # "accept" => "units" \notin FormOf[f].writes \cup FormOf[f].may
         /\ "candidates" \in FormOf[f].writes \cup FormOf[f].may => f \in {"suggest", "accept", "merge", "reject"}
  BY FormsNamed DEF FormOf, Form, CreateUnit, Reconcile, MakeAuthoritative, Promote, Demote, RunCensus,
     DownloadPack, RecordRun, SaveScores, SaveProfile, AddType, AddEntity, AddEdge, AddEntry, Suggest,
     AddTrace, AddIntent, Accept, Merge, Reject, ScanGaps, RecordGap, AddWorkEdge, PrepareDemo,
     DownloadProjections

-----------------------------------------------------------------------------
(* Jobs.                                                                   *)

LEMMA JobMade ==
  ASSUME NEW op, NEW arg, NEW n, NEW m, m = Job(op, arg, n)
  PROVE  JobShape(m) /\ m.op = op /\ m.arg = arg /\ m.n = n /\ m.stage = "sent" /\ m.code = "none"
BY DEF Job, JobShape

LEMMA LoadMade ==
  ASSUME NEW h
  PROVE  JobShape(Load(h)) /\ Load(h).op = h /\ Load(h).stage = "sent" /\ Load(h).code = "none"
BY DEF Load, Job, JobShape

\* An answered job is the same job, with its answer or with none.
LEMMA JobAnswered ==
  ASSUME NEW j, JobShape(j), NEW code, NEW body, NEW rows, Answers(j, code, body, rows)
  PROVE  \E m : /\ JobShape(m) /\ m.op = j.op /\ m.arg = j.arg /\ m.n = j.n /\ m.stage = "answered"
                /\ jobs' = (jobs \ {j}) \cup {m}
                /\ \/ m.code = code /\ m.body = body /\ db' = rows /\ calm' = calm
                   \/ m.code = "lost" /\ db' \in {db, rows} /\ ~calm'
<1>1. CASE /\ db' = rows /\ UNCHANGED <<faults, calm>>
           /\ jobs' = (jobs \ {j}) \cup {[j EXCEPT !.stage = "answered", !.code = code, !.body = body]}
  <2>1. PICK m : m = [j EXCEPT !.stage = "answered", !.code = code, !.body = body]
    OBVIOUS
  <2>2. m = [op |-> j.op, arg |-> j.arg, n |-> j.n, stage |-> "answered", code |-> code, body |-> body]
    BY <2>1 DEF JobShape
  <2>3. /\ JobShape(m) /\ m.op = j.op /\ m.arg = j.arg /\ m.n = j.n /\ m.stage = "answered"
        /\ m.code = code /\ m.body = body
    BY <2>2 DEF JobShape
  <2> QED BY <1>1, <2>1, <2>3
<1>2. CASE /\ calm' = FALSE /\ db' \in {db, rows}
           /\ jobs' = (jobs \ {j}) \cup {[j EXCEPT !.stage = "answered", !.code = "lost"]}
  <2>1. PICK m : m = [j EXCEPT !.stage = "answered", !.code = "lost"]
    OBVIOUS
  <2>2. m = [op |-> j.op, arg |-> j.arg, n |-> j.n, stage |-> "answered", code |-> "lost", body |-> j.body]
    BY <2>1 DEF JobShape
  <2>3. /\ JobShape(m) /\ m.op = j.op /\ m.arg = j.arg /\ m.n = j.n /\ m.stage = "answered"
        /\ m.code = "lost"
    BY <2>2 DEF JobShape
  <2> QED BY <1>2, <2>1, <2>3
<1> QED BY <1>1, <1>2 DEF Answers

\* Asking again for hs ends the reads of hs under way and sends new ones.
LEMMA Asked ==
  ASSUME NEW hs, NEW js
  PROVE  /\ \A h \in hs : Load(h) \in Reloaded(hs, js)
         /\ \A j \in js : j.op \notin hs => j \in Reloaded(hs, js)
         /\ \A j \in Reloaded(hs, js) : (j \in js /\ j.op \notin hs) \/ (j.op \in hs /\ j = Load(j.op))
         /\ hs = {} => Reloaded(hs, js) = js
<1>1. \A h \in hs : Load(h) \in Reloaded(hs, js)
  BY DEF Reloaded
<1>2. \A j \in js : j.op \notin hs => j \in Reloaded(hs, js)
  BY DEF Reloaded
<1>3. ASSUME NEW j \in Reloaded(hs, js)
      PROVE  (j \in js /\ j.op \notin hs) \/ (j.op \in hs /\ j = Load(j.op))
  <2>1. CASE j \in js /\ j.op \notin hs
    BY <2>1
  <2>2. CASE \E h \in hs : j = Load(h)
    <3>1. PICK h \in hs : j = Load(h)
      BY <2>2
    <3>2. Load(h).op = h
      BY LoadMade
    <3>3. j.op = h
      BY <3>1, <3>2
    <3> QED BY <3>1, <3>3
  <2> QED BY <1>3, <2>1, <2>2 DEF Reloaded
<1>4. hs = {} => Reloaded(hs, js) = js
  BY DEF Reloaded
<1> QED BY <1>1, <1>2, <1>3, <1>4

-----------------------------------------------------------------------------
(* What each action does to the tables, the jobs and the busy flags.       *)

Named(b) == IF b = "upload" THEN UploadSteps ELSE {b}

\* A quiet action moves the page's own state only, and no busy flag.
QuietEffect ==
  /\ UNCHANGED <<page, db, jobs, shown, tidy, calm>>
  /\ DOMAIN ui' = DOMAIN ui
  /\ ui'.busy = ui.busy
  /\ page = "workUnits" => ui'.upload = ui.upload

\* jobs of js go on, hs are asked again, and at most one job is new.
Going(js, hs, new) ==
  /\ hs \subseteq HooksOf[page]
  /\ jobs' = Reloaded(hs, js) \cup new
  /\ \A m \in new : /\ JobShape(m) /\ m.stage = "sent" /\ m.op \in Ops \ Hooks
                    /\ m.op = "bulk" => m.arg \in Nat \ {0}
  /\ \A m, k \in new : m = k
  /\ UNCHANGED <<page, db, shown>>
  /\ DOMAIN ui' = DOMAIN ui

StartEffect(hs, new) ==
  /\ Going(jobs, hs, new)
  /\ UNCHANGED calm
  /\ new # {} => tidy' = (tidy /\ Handlers = {})
  /\ tidy' => tidy
  /\ ui'.busy \subseteq Forms \cup {"bulk", "upload"}
  /\ \A b \in ui'.busy : b \in ui.busy \/ \E m \in new : m.op \in Named(b)

HeardEffect(j, hs, new) ==
  /\ Going(jobs \ {j}, hs, new)
  /\ tidy' = tidy
  /\ j.op \in Ops \ Hooks
  /\ j.stage = "answered"
  /\ calm' => calm /\ \A h \in HooksOf[page] : Owes(j, h) => h \in hs \/ \E m \in new : Owes(m, h)
  /\ \A m \in new : m.op \notin Forms
  /\ ui'.busy \subseteq ui.busy
  /\ \A b \in ui'.busy : j.op \in Named(b) => \E m \in new : m.op \in Named(b)

ServedEffect(j, m) ==
  /\ j.stage = "sent"
  /\ JobShape(m) /\ m.op = j.op /\ m.arg = j.arg /\ m.n = j.n /\ m.stage = "answered"
  /\ jobs' = (jobs \ {j}) \cup {m}
  /\ UNCHANGED <<page, shown, ui, tidy>>
  /\ DOMAIN db' = Tables
  /\ calm' => calm /\ m.code # "lost"
  /\ j.op \in Hooks => db' = db /\ (m.code = "ok" => m.body = View(j.op)) /\ (calm' => m.code = "ok")
  /\ calm' => \A h \in HooksOf[page] : (\A t \in TablesOf(h) : db'[t] = db[t]) \/ Owes(m, h)

LEMMA QuietStep ==
  ASSUME ShapeInv, SwitchTab \/ Browse \/ Explore \/ UNCHANGED vars
  PROVE  QuietEffect
<1> USE DEF QuietEffect, ShapeInv
<1>1. CASE SwitchTab
  BY <1>1 DEF SwitchTab
<1>2. CASE Browse
  <2>1. CASE Search
    BY <1>2, <2>1 DEF Browse, Search, Regrouped
  <2>2. CASE ToggleGroup
    BY <1>2, <2>2 DEF Browse, ToggleGroup
  <2>3. CASE ToggleIndustry
    BY <1>2, <2>3 DEF Browse, ToggleIndustry
  <2>4. CASE ExpandAll \/ CollapseAll
    BY <1>2, <2>4 DEF Browse, ExpandAll, CollapseAll
  <2>5. CASE SelectRow
    BY <1>2, <2>5 DEF Browse, SelectRow
  <2> QED BY <1>2, <2>1, <2>2, <2>3, <2>4, <2>5 DEF Browse
<1>3. CASE Explore
  <2>1. CASE Enter
    BY <1>3, <2>1 DEF Explore, Enter
  <2>2. CASE Leave
    BY <1>3, <2>2 DEF Explore, Leave
  <2>3. CASE PickNode \/ LetGo
    BY <1>3, <2>3 DEF Explore, PickNode, LetGo
  <2>4. CASE PickEdge
    BY <1>3, <2>4 DEF Explore, PickEdge
  <2> QED BY <1>3, <2>1, <2>2, <2>3, <2>4 DEF Explore
<1>4. CASE UNCHANGED vars
  BY <1>4 DEF vars
<1> QED BY <1>1, <1>2, <1>3, <1>4

LEMMA AskedNone ==
  ASSUME NEW js
  PROVE  Reloaded({}, js) = js
BY Asked

LEMMA SubmitStep ==
  ASSUME ShapeInv, NEW f \in Forms, Submit(f)
  PROVE  \E new : StartEffect({}, new)
<1> USE DEF ShapeInv
<1>1. PICK arg : Starts(f, arg)
  BY DEF Submit
<1>2. PICK m : m = Job(f, arg, acts + 1)
  OBVIOUS
<1>3. JobShape(m) /\ m.op = f /\ m.op # "bulk" /\ m.stage = "sent"
  BY <1>2, JobMade, NamesApart
<1>4. m.op \in Ops \ Hooks
  BY <1>3, NamesApart DEF Submit, Offered, Ops
<1>5. jobs' = Reloaded({}, jobs) \cup {m} /\ tidy' = (tidy /\ Handlers = {})
  BY <1>1, <1>2, AskedNone DEF Starts
<1>6. /\ DOMAIN ui' = DOMAIN ui
      /\ ui'.busy \subseteq ui.busy \cup {f}
  BY DEF Submit
<1>7. Named(f) = {f}
  BY NamesApart DEF Named
<1>8. StartEffect({}, {m})
  BY <1>3, <1>4, <1>5, <1>6, <1>7 DEF StartEffect, Going, Submit
<1> QED BY <1>8

LEMMA BulkStartStep ==
  ASSUME ShapeInv, StartBulk
  PROVE  \E new : StartEffect({}, new)
<1> USE DEF ShapeInv
<1>2. PICK m : m = Job("bulk", 1, acts + 1)
  OBVIOUS
<1>3. JobShape(m) /\ m.op = "bulk" /\ m.stage = "sent" /\ m.arg = 1
  BY <1>2, JobMade
<1>4. m.op \in Ops \ Hooks
  BY <1>3, NamesApart DEF StartBulk, BulkOffered, Ops
<1>5. jobs' = Reloaded({}, jobs) \cup {m} /\ tidy' = (tidy /\ Handlers = {})
  BY <1>2, AskedNone DEF StartBulk, Starts
<1>6. /\ DOMAIN ui' = DOMAIN ui
      /\ ui'.busy \subseteq ui.busy \cup {"bulk"}
  BY DEF StartBulk
<1>7. UNCHANGED <<page, db, shown, calm>>
  BY DEF StartBulk
<1>8. Going(jobs, {}, {m})
  BY <1>3, <1>4, <1>5, <1>6, <1>7 DEF Going
<1>9. StartEffect({}, {m})
  BY <1>3, <1>5, <1>6, <1>7, <1>8 DEF StartEffect, Named
<1> QED BY <1>9

LEMMA FirstRequestMade ==
  ASSUME NEW u, NEW n
  PROVE  /\ JobShape(FirstRequest(u, n))
         /\ FirstRequest(u, n).op \in {"uploadUnit", "uploadType"}
         /\ FirstRequest(u, n).stage = "sent"
         /\ FirstRequest(u, n).code = "none"
         /\ FirstRequest(u, n).op = "uploadUnit" => FirstRequest(u, n).arg = Code(u)
         /\ FirstRequest(u, n).op = "uploadType" => FirstRequest(u, n).arg = KeyOf(u.rows[u.at])
BY DEF FirstRequest, Job, JobShape

LEMMA UploadStartStep ==
  ASSUME ShapeInv, NEW file \in Workbooks, StartUpload(file)
  PROVE  \E hs, new : StartEffect(hs, new)
<1> USE DEF ShapeInv
<1> DEFINE u == Advanced([NoUpload EXCEPT !.rows = ParsedRows(file), !.known = shown["units"].units,
                                          !.cache = shown["types"].types], 1)
<1>0. page = "workUnits" /\ HooksOf[page] = WorkUnitsHooks /\ UNCHANGED <<page, db, shown, calm>>
      /\ tidy' = (tidy /\ Handlers = {})
  BY DEF StartUpload, HooksOf
<1>1. CASE ui' = ui /\ jobs' = jobs
  <2>1. jobs' = Reloaded({}, jobs) \cup {}
    BY <1>1, AskedNone
  <2>2. Going(jobs, {}, {})
    BY <1>0, <1>1, <2>1 DEF Going
  <2>3. StartEffect({}, {})
    BY <1>0, <1>1, <2>2 DEF StartEffect
  <2> QED BY <2>3
<1>2. CASE ui' = [ui EXCEPT !.upload = u] /\ jobs' = Reloaded({"units", "types"}, jobs)
  <2>1. DOMAIN ui' = DOMAIN ui /\ ui'.busy = ui.busy
    BY <1>2
  <2>2. StartEffect({"units", "types"}, {})
    BY <1>0, <1>2, <2>1 DEF StartEffect, Going, WorkUnitsHooks
  <2> QED BY <2>2
<1>3. CASE /\ ui' = [ui EXCEPT !.busy = @ \cup {"upload"}, !.upload = u]
           /\ jobs' = jobs \cup {FirstRequest(u, acts + 1)}
  <2>1. PICK m : m = FirstRequest(u, acts + 1)
    OBVIOUS
  <2>2. JobShape(m) /\ m.op \in UploadSteps /\ m.op # "bulk" /\ m.stage = "sent"
    BY <2>1, FirstRequestMade DEF UploadSteps
  <2>3. m.op \in Ops \ Hooks
    BY <1>0, <2>2, NamesApart DEF Ops
  <2>4. DOMAIN ui' = DOMAIN ui /\ ui'.busy = ui.busy \cup {"upload"}
    BY <1>3
  <2>5. m.op \in Named("upload")
    BY <2>2 DEF Named
  <2>6. jobs' = Reloaded({}, jobs) \cup {m}
    BY <1>3, <2>1, AskedNone
  <2>7. StartEffect({}, {m})
    BY <1>0, <2>2, <2>3, <2>4, <2>5, <2>6 DEF StartEffect, Going
  <2> QED BY <2>7
<1>4. \/ ui' = ui /\ jobs' = jobs
      \/ ui' = [ui EXCEPT !.upload = u] /\ jobs' = Reloaded({"units", "types"}, jobs)
      \/ /\ ui' = [ui EXCEPT !.busy = @ \cup {"upload"}, !.upload = u]
         /\ jobs' = jobs \cup {FirstRequest(u, acts + 1)}
  BY DEF StartUpload
<1> QED BY <1>1, <1>2, <1>3, <1>4

\* What a job under way can be, and where.
LEMMA OpsSplit ==
  ASSUME page \in Pages, NEW op \in Ops
  PROVE  /\ op \in Hooks => op \in HooksOf[page]
         /\ op \in Forms => FormOf[op].page = page
         /\ op \in UploadSteps => page = "workUnits"
         /\ op = "bulk" => page \in {"workUnits", "verification"}
         /\ op \in Hooks \cup Forms \cup UploadSteps \cup {"bulk"}
<1>1. HooksOf[page] \subseteq Hooks
  BY DEF Hooks
<1> QED BY <1>1, NamesApart DEF Ops

LEMMA HookTables ==
  ASSUME NEW h \in Hooks
  PROVE  TablesOf(h) \subseteq Tables
BY HooksNamed DEF TablesOf, Tables

\* A route that answers with code and body, and has the tables rows after it.
LEMMA ServedBy ==
  ASSUME ShapeInv, NEW j \in jobs, j.stage = "sent", UNCHANGED <<page, shown, ui, tidy>>,
         NEW code, NEW body, NEW rows, Answers(j, code, body, rows),
         code # "lost", DOMAIN rows = Tables,
         j.op \in Hooks => rows = db /\ code = "ok" /\ body = View(j.op),
         \A h \in HooksOf[page] :
           \/ \A t \in TablesOf(h) : rows[t] = db[t]
           \/ \A m : m.op = j.op /\ m.stage = "answered" /\ m.code = code => Owes(m, h)
  PROVE  \E m : ServedEffect(j, m)
<1>1. JobShape(j)
  BY DEF ShapeInv
<1>2. PICK m : /\ JobShape(m) /\ m.op = j.op /\ m.arg = j.arg /\ m.n = j.n /\ m.stage = "answered"
               /\ jobs' = (jobs \ {j}) \cup {m}
               /\ \/ m.code = code /\ m.body = body /\ db' = rows /\ calm' = calm
                  \/ m.code = "lost" /\ db' \in {db, rows} /\ ~calm'
  BY <1>1, JobAnswered
<1>3. DOMAIN db' = Tables
  BY <1>2 DEF ShapeInv
<1>4. calm' => calm /\ m.code = code /\ m.body = body /\ db' = rows
  BY <1>2
<1>5. calm' => \A h \in HooksOf[page] : (\A t \in TablesOf(h) : db'[t] = db[t]) \/ Owes(m, h)
  <2> SUFFICES ASSUME calm', NEW h \in HooksOf[page]
               PROVE  (\A t \in TablesOf(h) : db'[t] = db[t]) \/ Owes(m, h)
    OBVIOUS
  <2>1. db' = rows /\ m.code = code
    BY <1>4
  <2>2. CASE \A t \in TablesOf(h) : rows[t] = db[t]
    BY <2>1, <2>2
  <2>3. CASE \A x : x.op = j.op /\ x.stage = "answered" /\ x.code = code => Owes(x, h)
    BY <1>2, <2>1, <2>3
  <2> QED BY <2>2, <2>3
<1>6. j.op \in Hooks => db' = db /\ (m.code = "ok" => m.body = View(j.op)) /\ (calm' => m.code = "ok")
  BY <1>2, <1>4
<1> QED BY <1>2, <1>3, <1>4, <1>5, <1>6 DEF ServedEffect

LEMMA ReadServedStep ==
  ASSUME ShapeInv, NEW j \in jobs, ReadAnswered(j)
  PROVE  \E m : ServedEffect(j, m)
<1>1. DOMAIN db = Tables
  BY DEF ShapeInv
<1> QED BY <1>1, ServedBy DEF ReadAnswered

LEMMA FormServedStep ==
  ASSUME ShapeInv, NEW j \in jobs, FormServed(j)
  PROVE  \E m : ServedEffect(j, m)
<1>1. DOMAIN db = Tables /\ j.op \in Ops /\ page \in Pages /\ j.stage = "sent" /\ UNCHANGED <<page, shown, ui, tidy>>
  BY DEF ShapeInv, FormServed
<1>2. j.op \in Forms \ Hooks
  BY NamesApart DEF FormServed
<1>3. CASE Answers(j, "unauthorised", <<>>, db) \/ Answers(j, "refused", <<>>, db)
  BY <1>1, <1>2, <1>3, ServedBy
<1>4. ASSUME Answerable(j.op), NEW rows \in After(j.op, j.arg, j.n), Answers(j, "ok", <<>>, rows)
      PROVE  \E m : ServedEffect(j, m)
  <2>1. DOMAIN rows = Tables /\ \A t \in Tables \ (FormOf[j.op].writes \cup FormOf[j.op].may) : rows[t] = db[t]
    BY <1>1, <1>2, <1>4, AfterWrites
  <2>2. ASSUME NEW h \in HooksOf[page]
        PROVE  \/ \A t \in TablesOf(h) : rows[t] = db[t]
               \/ \A m : m.op = j.op /\ m.stage = "answered" /\ m.code = "ok" => Owes(m, h)
    <3>1. h \in Hooks /\ FormOf[j.op].page = page
      BY <1>1, <1>2, OpsSplit DEF Hooks
    <3>2. CASE h \in FormOf[j.op].reloads
      BY <1>2, <3>2 DEF Owes, Succeeded
    <3>3. CASE h \notin FormOf[j.op].reloads
      <4>1. TablesOf(h) \subseteq Tables
        BY <3>1, HookTables
      <4>2. TablesOf(h) \cap (FormOf[j.op].writes \cup FormOf[j.op].may) = {}
        BY <1>2, <1>4, <3>1, <3>3, WritesAreReloaded
      <4> QED BY <2>1, <4>1, <4>2
    <3> QED BY <3>2, <3>3
  <2> QED BY <1>1, <1>2, <1>4, <2>1, <2>2, ServedBy
<1> QED BY <1>2, <1>3, <1>4 DEF FormServed, Answerable

LEMMA UploadServedStep ==
  ASSUME ShapeInv, NEW j \in jobs, UploadServed(j)
  PROVE  \E m : ServedEffect(j, m)
<1>1. DOMAIN db = Tables /\ j.op \in Ops /\ page \in Pages /\ j.stage = "sent" /\ UNCHANGED <<page, shown, ui, tidy>>
  BY DEF ShapeInv, UploadServed
<1>2. j.op \in UploadSteps \ Hooks /\ page = "workUnits"
  BY <1>1, NamesApart, OpsSplit DEF UploadServed
<1>3. PICK code, body, rows :
        /\ Answers(j, code, body, rows) /\ code # "lost"
        /\ DOMAIN rows = Tables /\ \A t \in Tables \ {"units", "types"} : rows[t] = db[t]
  <2> DEFINE Good(code, body, rows) ==
        /\ Answers(j, code, body, rows) /\ code # "lost"
        /\ DOMAIN rows = Tables /\ \A t \in Tables \ {"units", "types"} : rows[t] = db[t]
  <2>1. PICK types : types = [db EXCEPT !["types"] = @ \cup {j.arg}]
    OBVIOUS
  <2>2. PICK units : units = [db EXCEPT !["units"] = @ \cup {j.arg}]
    OBVIOUS
  <2>3. \/ Answers(j, "ok", View("types"), db)
        \/ Answers(j, "conflict", <<>>, db)
        \/ Answers(j, "refused", <<>>, db)
        \/ Answers(j, "ok", <<>>, types)
        \/ Answers(j, "ok", <<>>, units)
    BY <2>1, <2>2 DEF UploadServed
  <2>4. /\ DOMAIN types = Tables /\ \A t \in Tables \ {"units", "types"} : types[t] = db[t]
        /\ DOMAIN units = Tables /\ \A t \in Tables \ {"units", "types"} : units[t] = db[t]
    BY <1>1, <2>1, <2>2
  <2>5. \/ Good("ok", View("types"), db)
        \/ Good("conflict", <<>>, db)
        \/ Good("refused", <<>>, db)
        \/ Good("ok", <<>>, types)
        \/ Good("ok", <<>>, units)
    BY <1>1, <2>3, <2>4
  <2> QED BY <2>5
<1>4. ASSUME NEW h \in HooksOf[page]
      PROVE  \/ \A t \in TablesOf(h) : rows[t] = db[t]
             \/ \A m : m.op = j.op /\ m.stage = "answered" /\ m.code = code => Owes(m, h)
  <2>1. CASE h \in {"units", "types"}
    BY <1>2, <2>1 DEF Owes
  <2>2. CASE h \in {"runs", "profiles"}
    <3>1. TablesOf(h) \subseteq Tables \ {"units", "types"}
      BY <2>2 DEF TablesOf, Tables
    <3> QED BY <1>3, <3>1
  <2> QED BY <1>2, <2>1, <2>2 DEF HooksOf, WorkUnitsHooks
<1> QED BY <1>1, <1>2, <1>3, <1>4, ServedBy

LEMMA BulkServedStep ==
  ASSUME ShapeInv, NEW j \in jobs, BulkServed(j)
  PROVE  \E m : ServedEffect(j, m)
<1>1. DOMAIN db = Tables /\ j.op \in Ops /\ page \in Pages /\ j.stage = "sent" /\ UNCHANGED <<page, shown, ui, tidy>>
  BY DEF ShapeInv, BulkServed
<1>2. j.op = "bulk" /\ j.op \notin Hooks /\ page \in {"workUnits", "verification"}
  BY <1>1, NamesApart, OpsSplit DEF BulkServed
<1>3. CASE Answers(j, "refused", <<>>, db)
  BY <1>1, <1>2, <1>3, ServedBy
<1>4. ASSUME NEW rows, Answers(j, "ok", <<>>, rows), rows = [db EXCEPT !["runs"] = @ \cup {BulkRow(j.n, j.arg)}]
      PROVE  \E m : ServedEffect(j, m)
  <2>1. DOMAIN rows = Tables /\ \A t \in Tables \ {"runs"} : rows[t] = db[t]
    BY <1>1, <1>4
  <2>2. ASSUME NEW h \in HooksOf[page]
        PROVE  \/ \A t \in TablesOf(h) : rows[t] = db[t]
               \/ \A m : m.op = j.op /\ m.stage = "answered" /\ m.code = "ok" => Owes(m, h)
    <3>1. CASE h = "runs"
      BY <1>2, <3>1 DEF Owes, Succeeded
    <3>2. CASE h \in {"units", "types", "profiles", "changes"}
      <4>1. TablesOf(h) \subseteq Tables \ {"runs"}
        BY <3>2 DEF TablesOf, Tables
      <4> QED BY <2>1, <4>1
    <3> QED BY <1>2, <3>1, <3>2 DEF HooksOf, WorkUnitsHooks, VerificationHooks
  <2>3. j.op \notin Hooks
    BY <1>2
  <2>4. Answers(j, "ok", <<>>, rows)
    BY <1>4
  <2> QED BY <1>1, <2>1, <2>2, <2>3, <2>4, ServedBy
<1> QED BY <1>3, <1>4 DEF BulkServed

LEMMA FormHeardStep ==
  ASSUME ShapeInv, NEW j \in jobs, HearForm(j)
  PROVE  \E hs, new : HeardEffect(j, hs, new)
<1>1. PICK hs : hs = IF j.code = "ok" THEN FormOf[j.op].reloads ELSE {}
  OBVIOUS
<1>2. j.op \in Ops /\ page \in Pages /\ j.op \in Forms \ Hooks /\ j.op \notin UploadSteps /\ j.op # "bulk"
      /\ j.op # "upload"
  BY NamesApart DEF ShapeInv, HearForm
<1>3. FormOf[j.op].page = page /\ hs \subseteq HooksOf[page]
  BY <1>1, <1>2, OpsSplit, FormsSend
<1>4. jobs' = Reloaded(hs, jobs \ {j}) \cup {}
  <2>1. CASE j.code = "ok"
    BY <1>1, <2>1 DEF HearForm
  <2>2. CASE j.code # "ok"
    BY <1>1, <2>2, AskedNone DEF HearForm
  <2> QED BY <2>1, <2>2
<1>5. DOMAIN ui' = DOMAIN ui /\ ui'.busy = ui.busy \ {j.op}
  BY DEF HearForm, Released, ShapeInv
<1>6. UNCHANGED <<page, db, shown, tidy, calm>> /\ j.stage = "answered"
  BY DEF HearForm
<1>7. Going(jobs \ {j}, hs, {})
  BY <1>3, <1>4, <1>5, <1>6 DEF Going
<1>8. \A h \in HooksOf[page] : Owes(j, h) => h \in hs
  BY <1>1, <1>2 DEF Owes, Succeeded
<1>9. \A b \in ui'.busy : j.op \notin Named(b)
  BY <1>2, <1>5 DEF Named
<1> QED BY <1>2, <1>5, <1>6, <1>7, <1>8, <1>9 DEF HeardEffect

LEMMA BulkHeardStep ==
  ASSUME ShapeInv, NEW j \in jobs, HearBulk(j)
  PROVE  \E hs, new : HeardEffect(j, hs, new)
<1>1. /\ j.op = "bulk" /\ j.op \in Ops \ Hooks /\ page \in {"workUnits", "verification"}
      /\ j.arg \in Nat \ {0} /\ j.stage = "answered"
  BY NamesApart, OpsSplit DEF ShapeInv, HearBulk
<1>2. UNCHANGED <<page, db, shown, tidy>>
  BY DEF HearBulk
<1>3. \A b \in ui.busy : j.op \in Named(b) => b = "bulk"
  BY <1>1, NamesApart DEF Named
<1>4. CASE j.code # "ok"
  <2>1. /\ jobs' = Reloaded({}, jobs \ {j}) \cup {} /\ calm' = (calm /\ j.arg = 1)
        /\ DOMAIN ui' = DOMAIN ui /\ ui'.busy = ui.busy \ {"bulk"}
    BY <1>4, AskedNone DEF HearBulk, ShapeInv
  <2>2. calm' => \A h \in HooksOf[page] : ~Owes(j, h)
    <3>1. calm' => j.arg = 1
      BY <2>1
    <3>2. j.op \notin Forms /\ j.op \notin UploadSteps /\ ~Succeeded(j)
      BY <1>1, <1>4, NamesApart DEF Succeeded
    <3>3. ASSUME j.arg = 1, NEW h PROVE ~Owes(j, h)
      BY <3>2, <3>3 DEF Owes
    <3> QED BY <3>1, <3>3
  <2>3. Going(jobs \ {j}, {}, {})
    BY <1>2, <2>1 DEF Going
  <2>4. HeardEffect(j, {}, {})
    BY <1>1, <1>2, <1>3, <2>1, <2>2, <2>3 DEF HeardEffect
  <2> QED BY <2>4
<1>5. CASE j.code = "ok" /\ ~BulkEnds(j)
  <2>1. PICK m : m = Job("bulk", j.arg + 1, j.n)
    OBVIOUS
  <2>2. JobShape(m) /\ m.op = "bulk" /\ m.arg = j.arg + 1 /\ m.stage = "sent"
    BY <2>1, JobMade
  <2>3. jobs' = Reloaded({}, jobs \ {j}) \cup {m} /\ UNCHANGED <<ui, calm>>
    BY <1>5, <2>1, AskedNone DEF HearBulk
  <2>4. \A h \in HooksOf[page] : Owes(j, h) => Owes(m, h)
    BY <1>1, <2>2, NamesApart DEF Owes
  <2>5. Going(jobs \ {j}, {}, {m})
    BY <1>1, <1>2, <2>2, <2>3 DEF Going
  <2>6. "bulk" \in Named("bulk") /\ "bulk" \notin Forms
    BY NamesApart DEF Named
  <2>7. HeardEffect(j, {}, {m})
    BY <1>1, <1>2, <1>3, <2>2, <2>3, <2>4, <2>5, <2>6 DEF HeardEffect
  <2> QED BY <2>7
<1>6. CASE j.code = "ok" /\ BulkEnds(j)
  <2>1. PICK hs : hs = IF page = "workUnits" THEN {"units", "runs"} ELSE VerificationHooks
    OBVIOUS
  <2>2. /\ jobs' = Reloaded(hs, jobs \ {j}) \cup {} /\ calm' = calm
        /\ DOMAIN ui' = DOMAIN ui /\ ui'.busy = ui.busy \ {"bulk"}
    BY <1>6, <2>1 DEF HearBulk, ShapeInv
  <2>3. hs \subseteq HooksOf[page] /\ "runs" \in hs
    BY <1>1, <2>1 DEF HooksOf, WorkUnitsHooks, VerificationHooks
  <2>4. \A h \in HooksOf[page] : Owes(j, h) => h \in hs
    BY <1>1, <2>3, NamesApart DEF Owes
  <2>5. Going(jobs \ {j}, hs, {})
    BY <1>2, <2>2, <2>3 DEF Going
  <2>6. HeardEffect(j, hs, {})
    BY <1>1, <1>2, <1>3, <2>2, <2>4, <2>5 DEF HeardEffect
  <2> QED BY <2>6
<1> QED BY <1>4, <1>5, <1>6

\* The next request of an upload, or its summary.
LEMMA ContinueStep ==
  ASSUME ShapeInv, NEW j \in jobs, j.op \in UploadSteps, j.stage = "answered",
         UNCHANGED <<page, db, shown, tidy, calm>>,
         NEW u, Continue(u, jobs \ {j}, j.n)
  PROVE  \E hs, new : HeardEffect(j, hs, new)
<1>1. j.op \in Ops \ Hooks /\ page = "workUnits" /\ j.op # "bulk" /\ j.op \notin Forms
  BY NamesApart, OpsSplit DEF ShapeInv
<1>2. \A b \in ui.busy : j.op \in Named(b) => b = "upload"
  BY <1>1, NamesApart DEF Named, ShapeInv
<1>3. CASE u.at <= Len(u.rows)
  <2>1. PICK m : m = FirstRequest(u, j.n)
    OBVIOUS
  <2>2. JobShape(m) /\ m.op \in UploadSteps /\ m.stage = "sent"
    BY <2>1, FirstRequestMade DEF UploadSteps
  <2>3. m.op # "bulk" /\ m.op \in Ops \ Hooks /\ m.op \notin Forms
    BY <1>1, <2>2, NamesApart DEF Ops
  <2>4. jobs' = Reloaded({}, jobs \ {j}) \cup {m} /\ ui' = [ui EXCEPT !.upload = u]
    BY <1>3, <2>1, AskedNone DEF Continue
  <2>5. DOMAIN ui' = DOMAIN ui /\ ui'.busy = ui.busy
    BY <2>4 DEF ShapeInv
  <2>6. Going(jobs \ {j}, {}, {m})
    BY <2>2, <2>3, <2>4, <2>5 DEF Going
  <2>7. \A h \in HooksOf[page] : Owes(j, h) => Owes(m, h)
    BY <1>1, <2>2 DEF Owes
  <2>8. m.op \in Named("upload")
    BY <2>2 DEF Named
  <2>9. HeardEffect(j, {}, {m})
    BY <1>1, <1>2, <2>3, <2>5, <2>6, <2>7, <2>8 DEF HeardEffect
  <2> QED BY <2>9
<1>4. CASE ~(u.at <= Len(u.rows))
  <2>1. /\ jobs' = Reloaded({"units", "types"}, jobs \ {j}) \cup {}
        /\ ui' = [ui EXCEPT !.upload = u, !.busy = @ \ {"upload"}]
    BY <1>4 DEF Continue
  <2>2. DOMAIN ui' = DOMAIN ui /\ ui'.busy = ui.busy \ {"upload"}
    BY <2>1 DEF ShapeInv
  <2>3. {"units", "types"} \subseteq HooksOf[page]
    BY <1>1 DEF HooksOf, WorkUnitsHooks
  <2>4. Going(jobs \ {j}, {"units", "types"}, {})
    BY <2>1, <2>2, <2>3 DEF Going
  <2>5. \A h \in HooksOf[page] : Owes(j, h) => h \in {"units", "types"}
    BY <1>1 DEF Owes
  <2>6. HeardEffect(j, {"units", "types"}, {})
    BY <1>1, <1>2, <2>2, <2>4, <2>5 DEF HeardEffect
  <2> QED BY <2>6
<1> QED BY <1>3, <1>4

LEMMA UploadHeardStep ==
  ASSUME ShapeInv, NEW j \in jobs, HearUpload(j)
  PROVE  \E hs, new : HeardEffect(j, hs, new)
<1> DEFINE u == ui.upload
           key == KeyOf(u.rows[u.at])
           Over(code) == Continue(Advanced(RowOver(u, code), u.at + 1), jobs \ {j}, j.n)
           SendUnit == /\ jobs' = (jobs \ {j}) \cup {Job("uploadUnit", Code(u), j.n)}
                       /\ ui' = [ui EXCEPT !.upload.cache = @ \cup {key}]
           Reread == /\ jobs' = Reloaded({"types"}, jobs \ {j}) \cup {Job("uploadReread", key, j.n)}
                     /\ ui' = ui
<1>1. /\ j.op \in UploadSteps /\ j.op \in Ops \ Hooks /\ page = "workUnits" /\ j.op # "bulk" /\ j.op \notin Forms
      /\ j.stage = "answered" /\ UNCHANGED <<page, db, shown, tidy, calm>>
  BY NamesApart, OpsSplit DEF ShapeInv, HearUpload
<1>2. \A b \in ui.busy : j.op \in Named(b) => b = "upload"
  BY <1>1, NamesApart DEF Named, ShapeInv
<1>3. Over(j.code) \/ Over("conflict") \/ SendUnit \/ Reread
  BY DEF HearUpload
<1>4. CASE Over(j.code) \/ Over("conflict")
  BY <1>1, <1>4, ContinueStep
<1>5. CASE SendUnit
  <2>1. PICK m : m = Job("uploadUnit", Code(u), j.n)
    OBVIOUS
  <2>2. JobShape(m) /\ m.op = "uploadUnit" /\ m.op \in UploadSteps /\ m.stage = "sent"
    BY <2>1, JobMade DEF UploadSteps
  <2>3. m.op # "bulk" /\ m.op \in Ops \ Hooks /\ m.op \notin Forms
    BY <1>1, <2>2, NamesApart DEF Ops
  <2>4. jobs' = Reloaded({}, jobs \ {j}) \cup {m}
    BY <1>5, <2>1, AskedNone
  <2>5. DOMAIN ui' = DOMAIN ui /\ ui'.busy = ui.busy
    BY <1>5 DEF ShapeInv
  <2>6. Going(jobs \ {j}, {}, {m})
    BY <1>1, <2>2, <2>3, <2>4, <2>5 DEF Going
  <2>7. \A h \in HooksOf[page] : Owes(j, h) => Owes(m, h)
    BY <1>1, <2>2 DEF Owes
  <2>8. m.op \in Named("upload")
    BY <2>2 DEF Named
  <2>9. HeardEffect(j, {}, {m})
    BY <1>1, <1>2, <2>3, <2>5, <2>6, <2>7, <2>8 DEF HeardEffect
  <2> QED BY <2>9
<1>6. CASE Reread
  <2>1. PICK m : m = Job("uploadReread", key, j.n)
    OBVIOUS
  <2>2. JobShape(m) /\ m.op = "uploadReread" /\ m.op \in UploadSteps /\ m.stage = "sent"
    BY <2>1, JobMade DEF UploadSteps
  <2>3. m.op # "bulk" /\ m.op \in Ops \ Hooks /\ m.op \notin Forms
    BY <1>1, <2>2, NamesApart DEF Ops
  <2>4. jobs' = Reloaded({"types"}, jobs \ {j}) \cup {m} /\ ui' = ui
    BY <1>6, <2>1
  <2>5. {"types"} \subseteq HooksOf[page]
    BY <1>1 DEF HooksOf, WorkUnitsHooks
  <2>6. Going(jobs \ {j}, {"types"}, {m})
    BY <1>1, <2>2, <2>3, <2>4, <2>5 DEF Going
  <2>7. \A h \in HooksOf[page] : Owes(j, h) => Owes(m, h)
    BY <1>1, <2>2 DEF Owes
  <2>8. m.op \in Named("upload")
    BY <2>2 DEF Named
  <2>9. HeardEffect(j, {"types"}, {m})
    BY <1>1, <1>2, <2>3, <2>4, <2>6, <2>7, <2>8 DEF HeardEffect
  <2> QED BY <2>9
<1> QED BY <1>3, <1>4, <1>5, <1>6

\* Hearing the answer of a read.
ReadEffect(j) ==
  /\ j \in jobs /\ j.op \in Hooks /\ j.stage = "answered"
  /\ jobs' = jobs \ {j}
  /\ shown' = IF j.code = "ok" THEN [shown EXCEPT ![j.op] = j.body] ELSE shown
  /\ UNCHANGED <<page, db, tidy, calm>>
  /\ DOMAIN ui' = DOMAIN ui
  /\ ui'.busy = ui.busy

LEMMA ReadHeardStep ==
  ASSUME ShapeInv, NEW j \in jobs, HearRead(j), Rendered(j)
  PROVE  ReadEffect(j)
<1>1. DOMAIN ui' = DOMAIN ui /\ ui'.busy = ui.busy
  BY DEF Rendered, Regrouped, ShapeInv
<1> QED BY <1>1 DEF HearRead, ReadEffect

ElsewhereEffect ==
  /\ UNCHANGED <<page, jobs, shown, ui, tidy>>
  /\ ~calm'
  /\ DOMAIN db' = Tables
  /\ \A t \in Tables \ {"units", "types"} : db'[t] = db[t]
  /\ db["units"] \subseteq db'["units"] /\ db["types"] \subseteq db'["types"]

LEMMA ElsewhereStep ==
  ASSUME ShapeInv, Elsewhere
  PROVE  ElsewhereEffect
<1>1. {"units", "types"} \subseteq Tables
  BY DEF Tables
<1> QED BY <1>1 DEF ShapeInv, Elsewhere, ElsewhereEffect

\* Every step is one of these.
LEMMA NextSplit ==
  ASSUME ShapeInv, [Next]_vars
  PROVE  \/ QuietEffect
         \/ \E hs, new : StartEffect(hs, new)
         \/ \E j \in jobs : \E m : ServedEffect(j, m)
         \/ \E j \in jobs : ReadEffect(j)
         \/ \E j \in jobs : \E hs, new : HeardEffect(j, hs, new)
         \/ ElsewhereEffect
<1>1. CASE Click
  BY <1>1, SubmitStep, UploadStartStep, BulkStartStep DEF Click
<1>2. CASE Look \/ UNCHANGED vars
  BY <1>2, QuietStep DEF Look
<1>3. CASE Served
  BY <1>3, ReadServedStep, FormServedStep, UploadServedStep, BulkServedStep DEF Served
<1>4. CASE Heard
  BY <1>4, ReadHeardStep, FormHeardStep, UploadHeardStep, BulkHeardStep DEF Heard
<1>5. CASE Elsewhere
  BY <1>5, ElsewhereStep
<1> QED BY <1>1, <1>2, <1>3, <1>4, <1>5 DEF Next

-----------------------------------------------------------------------------
(* The shape of the jobs.                                                  *)

\* What the pages start with.
LEMMA InitMounted ==
  ASSUME Init
  PROVE  \E state, rows, first :
           /\ MountedWith(state, rows, first)
           /\ first \subseteq HooksOf[page] /\ page \in Pages
           /\ DOMAIN rows = Tables
           /\ rows["candidates"] \in {{}, {"new"}}
           /\ page # "discovery" => rows["candidates"] = {}
           /\ rows["units"] \subseteq Codes
           /\ page = "discovery" => FromCandidate \notin rows["units"]
           /\ {"busy", "tab"} \subseteq DOMAIN state
           /\ page = "workUnits" => \E open \in OpenGroups : state = WorkUnitsUi(open)
           /\ state.busy = {}
<1>0. \A units, types, candidates, edges :
        LET rows == Seed(units, types, candidates, edges) IN
          DOMAIN rows = Tables /\ rows["units"] = units /\ rows["candidates"] = candidates
  BY DEF Seed, NoRows, Tables
<1>1. CASE /\ page \in Pages \ {"workUnits", "workGraph"}
           /\ \E units \in SeedUnits, candidates \in {{}, {"new"}}, last \in HooksOf[page] :
                /\ candidates # {} => page = "discovery"
                /\ page = "discovery" => last = "candidates"
                /\ MountedWith(FormsUi, Seed(units, {}, candidates, <<>>), {last})
  <2>1. PICK units \in SeedUnits, candidates \in {{}, {"new"}}, last \in HooksOf[page] :
          /\ candidates # {} => page = "discovery"
          /\ MountedWith(FormsUi, Seed(units, {}, candidates, <<>>), {last})
    BY <1>1
  <2>2. PICK rows : rows = Seed(units, {}, candidates, <<>>)
    OBVIOUS
  <2>3. DOMAIN rows = Tables /\ rows["units"] = units /\ rows["candidates"] = candidates
    BY <1>0, <2>2
  <2>4. {"busy", "tab"} \subseteq DOMAIN FormsUi /\ FormsUi.busy = {}
    BY DEF FormsUi
  <2>5. units \subseteq Codes \ {FromCandidate}
    BY SeedAssumption
  <2>6. MountedWith(FormsUi, rows, {last}) /\ {last} \subseteq HooksOf[page] /\ page # "workUnits" /\ page \in Pages
    BY <1>1, <2>1, <2>2
  <2> QED BY <2>1, <2>3, <2>4, <2>5, <2>6
<1>2. CASE /\ page = "workUnits"
           /\ \E units \in SeedUnits, open \in OpenGroups :
                MountedWith(WorkUnitsUi(open), Seed(units, {}, {}, <<>>), {"units"})
  <2>1. PICK units \in SeedUnits, open \in OpenGroups :
          MountedWith(WorkUnitsUi(open), Seed(units, {}, {}, <<>>), {"units"})
    BY <1>2
  <2>2. PICK rows : rows = Seed(units, {}, {}, <<>>)
    OBVIOUS
  <2>3. DOMAIN rows = Tables /\ rows["units"] = units /\ rows["candidates"] = {}
    BY <1>0, <2>2
  <2>4. {"busy", "tab"} \subseteq DOMAIN WorkUnitsUi(open) /\ WorkUnitsUi(open).busy = {}
    BY DEF WorkUnitsUi
  <2>5. units \subseteq Codes \ {FromCandidate}
    BY SeedAssumption
  <2>6. {"units"} \subseteq HooksOf[page] /\ page \in Pages
    BY <1>2, PagesNamed DEF HooksOf, WorkUnitsHooks
  <2>7. MountedWith(WorkUnitsUi(open), rows, {"units"}) /\ page # "discovery"
    BY <1>2, <2>1, <2>2
  <2> QED BY <2>3, <2>4, <2>5, <2>6, <2>7
<1>3. CASE /\ page = "workGraph"
           /\ \E edges \in SeedEdges : MountedWith(GraphUi, Seed(Codes, {}, {}, edges), {"graph"})
  <2>1. PICK edges \in SeedEdges : MountedWith(GraphUi, Seed(Codes, {}, {}, edges), {"graph"})
    BY <1>3
  <2>2. PICK rows : rows = Seed(Codes, {}, {}, edges)
    OBVIOUS
  <2>3. DOMAIN rows = Tables /\ rows["units"] = Codes /\ rows["candidates"] = {}
    BY <1>0, <2>2
  <2>4. {"busy", "tab"} \subseteq DOMAIN GraphUi /\ GraphUi.busy = {}
    BY DEF GraphUi
  <2>6. {"graph"} \subseteq HooksOf[page] /\ page \in Pages
    BY <1>3, PagesNamed DEF HooksOf, WorkGraphHooks
  <2>7. MountedWith(GraphUi, rows, {"graph"}) /\ page # "discovery" /\ page # "workUnits"
    BY <1>3, <2>1, <2>2
  <2> QED BY <2>3, <2>4, <2>6, <2>7
<1> QED BY <1>1, <1>2, <1>3 DEF Init

LEMMA InitShape == Init => ShapeInv /\ ReadInv /\ DeadButtonWorks
<1> SUFFICES ASSUME Init
             PROVE  ShapeInv /\ ReadInv /\ DeadButtonWorks
  OBVIOUS
<1>1. PICK state, rows, first :
        /\ MountedWith(state, rows, first)
        /\ first \subseteq HooksOf[page] /\ page \in Pages
        /\ DOMAIN rows = Tables
        /\ {"busy", "tab"} \subseteq DOMAIN state
        /\ page = "workUnits" => \E open \in OpenGroups : state = WorkUnitsUi(open)
        /\ state.busy = {}
  BY InitMounted
<1>2. db = rows /\ ui = state /\ DOMAIN shown = HooksOf[page] /\ jobs = {Load(h) : h \in first}
  BY <1>1 DEF MountedWith
<1>3. page = "workUnits" => {"sel", "search", "expanded", "collapsed", "upload"} \subseteq DOMAIN ui
  BY <1>1, <1>2 DEF WorkUnitsUi
<1>4. ASSUME NEW j \in jobs
      PROVE  j.op \in HooksOf[page] /\ j.op \in Hooks /\ j.op # "bulk" /\ j.stage = "sent" /\ JobShape(j) /\ j = Load(j.op)
  <2>1. PICK h \in first : j = Load(h)
    BY <1>2
  <2>2. j.op = h /\ j.stage = "sent" /\ JobShape(j)
    BY <2>1, LoadMade
  <2>3. h \in HooksOf[page] /\ h \in Hooks
    BY <1>1 DEF Hooks
  <2> QED BY <2>1, <2>2, <2>3, NamesApart
<1>5. ShapeInv
  BY <1>1, <1>2, <1>3, <1>4 DEF ShapeInv, Ops
<1>6. ReadInv
  BY <1>4 DEF ReadInv
<1>7. DeadButtonWorks
  BY <1>1, <1>2 DEF DeadButtonWorks
<1> QED BY <1>5, <1>6, <1>7

LEMMA OpsKept ==
  ASSUME page' = page
  PROVE  Ops' = Ops
BY DEF Ops

LEMMA GoingOn ==
  ASSUME NEW js, NEW hs, NEW new, Going(js, hs, new)
  PROVE  /\ \A j \in jobs' : j \in new \/ (j \in js /\ j.op \notin hs) \/ (j.op \in hs /\ j = Load(j.op))
         /\ \A h \in hs : Load(h) \in jobs'
         /\ \A j \in js : j.op \notin hs => j \in jobs'
         /\ new \subseteq jobs'
<1>1. jobs' = Reloaded(hs, js) \cup new
  BY DEF Going
<1>2. \A j \in Reloaded(hs, js) : (j \in js /\ j.op \notin hs) \/ (j.op \in hs /\ j = Load(j.op))
  BY Asked
<1>3. \A h \in hs : Load(h) \in Reloaded(hs, js)
  BY Asked
<1>4. \A j \in js : j.op \notin hs => j \in Reloaded(hs, js)
  BY Asked
<1> QED BY <1>1, <1>2, <1>3, <1>4

LEMMA ShapeStep == ShapeInv /\ [Next]_vars => ShapeInv'
<1> SUFFICES ASSUME ShapeInv, [Next]_vars
             PROVE  ShapeInv'
  OBVIOUS
<1> USE DEF ShapeInv
<1>1. CASE QuietEffect
  BY <1>1, OpsKept DEF QuietEffect
<1>2. ASSUME NEW js, NEW hs, NEW new, js \subseteq jobs, Going(js, hs, new),
             ui'.busy \subseteq Forms \cup {"bulk", "upload"}
      PROVE  ShapeInv'
  <2>1. Ops' = Ops /\ page' = page /\ HooksOf[page] \subseteq Ops
    BY <1>2, OpsKept DEF Going, Ops
  <2>2. ASSUME NEW j \in jobs'
        PROVE  /\ JobShape(j) /\ j.op \in Ops /\ j.stage \in {"sent", "answered"}
               /\ j.op = "bulk" => j.arg \in Nat \ {0}
    <3>1. CASE j \in new
      BY <1>2, <3>1 DEF Going
    <3>2. CASE j \in js
      BY <1>2, <3>2
    <3>3. CASE j.op \in hs /\ j = Load(j.op)
      <4>1. JobShape(j) /\ j.stage = "sent"
        BY <3>3, LoadMade
      <4>2. j.op \in HooksOf[page] /\ j.op # "bulk"
        BY <1>2, <3>3, NamesApart DEF Going, Hooks
      <4> QED BY <2>1, <4>1, <4>2
    <3> QED BY <1>2, <2>2, <3>1, <3>2, <3>3, GoingOn
  <2> QED BY <1>2, <2>1, <2>2 DEF Going
<1>3. ASSUME NEW hs, NEW new, StartEffect(hs, new)
      PROVE  ShapeInv'
  BY <1>2, <1>3 DEF StartEffect
<1>4. ASSUME NEW j \in jobs, NEW hs, NEW new, HeardEffect(j, hs, new)
      PROVE  ShapeInv'
  BY <1>2, <1>4 DEF HeardEffect
<1>5. ASSUME NEW j \in jobs, NEW m, ServedEffect(j, m)
      PROVE  ShapeInv'
  BY <1>5, OpsKept DEF ServedEffect
<1>6. ASSUME NEW j \in jobs, ReadEffect(j)
      PROVE  ShapeInv'
  BY <1>6, OpsKept DEF ReadEffect
<1>7. CASE ElsewhereEffect
  BY <1>7, OpsKept DEF ElsewhereEffect
<1> QED BY <1>1, <1>3, <1>4, <1>5, <1>6, <1>7, NextSplit

\* A hook has at most one read under way.
LEMMA ReadStep == ShapeInv /\ ReadInv /\ [Next]_vars => ReadInv'
<1> SUFFICES ASSUME ShapeInv, ReadInv, [Next]_vars
             PROVE  ReadInv'
  OBVIOUS
<1> USE DEF ReadInv
<1>1. CASE QuietEffect \/ ElsewhereEffect
  BY <1>1 DEF QuietEffect, ElsewhereEffect
<1>2. ASSUME NEW js, NEW hs, NEW new, js \subseteq jobs, Going(js, hs, new), calm' => calm
      PROVE  ReadInv'
  <2>1. ASSUME NEW j \in jobs', j.op \in Hooks
        PROVE  (j \in js /\ j.op \notin hs) \/ (j.op \in hs /\ j = Load(j.op))
    <3>1. j \notin new
      BY <1>2, <2>1 DEF Going
    <3> QED BY <1>2, <2>1, <3>1, GoingOn
  <2>2. ASSUME NEW j \in jobs', j.op \in Hooks, j.stage = "sent"
        PROVE  j = Load(j.op)
    BY <1>2, <2>1, <2>2
  <2>3. ASSUME NEW j \in jobs', NEW k \in jobs', j.op \in Hooks, j.op = k.op
        PROVE  j = k
    BY <1>2, <2>1, <2>3
  <2>4. ASSUME calm', NEW j \in jobs', j.op \in Hooks, j.stage = "answered"
        PROVE  j.code = "ok"
    <3>1. j # Load(j.op)
      BY <2>4, LoadMade
    <3> QED BY <1>2, <2>1, <2>4, <3>1
  <2> QED BY <2>2, <2>3, <2>4
<1>3. ASSUME NEW hs, NEW new, StartEffect(hs, new)
      PROVE  ReadInv'
  BY <1>2, <1>3 DEF StartEffect
<1>4. ASSUME NEW j \in jobs, NEW hs, NEW new, HeardEffect(j, hs, new)
      PROVE  ReadInv'
  BY <1>2, <1>4 DEF HeardEffect
<1>5. ASSUME NEW j \in jobs, NEW m, ServedEffect(j, m)
      PROVE  ReadInv'
  BY <1>5 DEF ServedEffect
<1>6. ASSUME NEW j \in jobs, ReadEffect(j)
      PROVE  ReadInv'
  BY <1>6 DEF ReadEffect
<1> QED BY <1>1, <1>3, <1>4, <1>5, <1>6, NextSplit

-----------------------------------------------------------------------------
(* A dead button has its request under way.                                *)

LEMMA DeadStep == ShapeInv /\ DeadButtonWorks /\ [Next]_vars => DeadButtonWorks'
<1> SUFFICES ASSUME ShapeInv, DeadButtonWorks, [Next]_vars
             PROVE  \A b \in ui'.busy : \E j \in jobs' : j.op \in Named(b)
  BY DEF DeadButtonWorks, Named
<1>0. \A b \in ui.busy : \E j \in jobs : j.op \in Named(b)
  BY DEF DeadButtonWorks, Named
<1>1. CASE QuietEffect \/ ElsewhereEffect
  BY <1>0, <1>1 DEF QuietEffect, ElsewhereEffect
<1>2. ASSUME NEW js, NEW hs, NEW new, Going(js, hs, new), NEW b \in ui.busy,
             NEW j \in js, j \in jobs, j.op \in Named(b)
      PROVE  j \in jobs'
  <2>1. j.op \notin Hooks
    BY <1>2, NamesApart DEF ShapeInv, Named
  <2>2. j.op \notin hs
    BY <1>2, <2>1 DEF Going, Hooks, ShapeInv
  <2> QED BY <1>2, <2>2, GoingOn
<1>3. ASSUME NEW hs, NEW new, StartEffect(hs, new), NEW b \in ui'.busy
      PROVE  \E j \in jobs' : j.op \in Named(b)
  <2>1. CASE b \in ui.busy
    BY <1>0, <1>2, <1>3, <2>1 DEF StartEffect
  <2>2. CASE \E m \in new : m.op \in Named(b)
    BY <1>3, <2>2 DEF StartEffect, Going
  <2> QED BY <1>3, <2>1, <2>2 DEF StartEffect
<1>4. ASSUME NEW k \in jobs, NEW hs, NEW new, HeardEffect(k, hs, new), NEW b \in ui'.busy
      PROVE  \E j \in jobs' : j.op \in Named(b)
  <2>0. b \in ui.busy
    BY <1>4 DEF HeardEffect
  <2>1. PICK j \in jobs : j.op \in Named(b)
    BY <1>0, <2>0
  <2>2. CASE j = k
    BY <1>4, <2>1, <2>2 DEF HeardEffect, Going
  <2>3. CASE j # k
    BY <1>2, <1>4, <2>0, <2>1, <2>3 DEF HeardEffect
  <2> QED BY <2>2, <2>3
<1>5. ASSUME NEW j \in jobs, NEW m, ServedEffect(j, m)
      PROVE  \A b \in ui'.busy : \E k \in jobs' : k.op \in Named(b)
  BY <1>0, <1>5 DEF ServedEffect
<1>6. ASSUME NEW j \in jobs, ReadEffect(j), NEW b \in ui'.busy
      PROVE  \E k \in jobs' : k.op \in Named(b)
  <2>1. b \in ui.busy
    BY <1>6 DEF ReadEffect
  <2>2. PICK k \in jobs : k.op \in Named(b)
    BY <1>0, <2>1
  <2>3. k # j
    BY <1>6, <2>1, <2>2, NamesApart DEF ShapeInv, Named, ReadEffect
  <2> QED BY <1>6, <2>2, <2>3 DEF ReadEffect
<1> QED BY <1>1, <1>3, <1>4, <1>5, <1>6, NextSplit

-----------------------------------------------------------------------------
(* The pages read what they wrote.                                         *)

LEMMA OwesNoRead ==
  ASSUME NEW j, NEW h, Owes(j, h)
  PROVE  j.op \notin Hooks
BY NamesApart DEF Owes

LEMMA FreshKept ==
  ASSUME NEW h \in Hooks, Fresh(h), \A t \in TablesOf(h) : db'[t] = db[t], shown'[h] = shown[h],
         \A j : j.op = h => (j \in jobs' <=> j \in jobs)
  PROVE  Fresh(h)'
<1>1. View(h)' = View(h)
  BY DEF View
<1>2. Load(h)' = Load(h)
  BY DEF Load, Job
<1>3. CASE Load(h) \in jobs
  BY <1>2, <1>3, LoadMade DEF Fresh
<1>4. CASE \E j \in jobs : j.op = h /\ j.stage = "answered" /\ j.code = "ok" /\ j.body = View(h)
  BY <1>1, <1>4 DEF Fresh
<1>5. CASE (\A j \in jobs : j.op # h) /\ shown[h] = View(h)
  BY <1>1, <1>5 DEF Fresh
<1> QED BY <1>3, <1>4, <1>5 DEF Fresh

LEMMA FreshGoing ==
  ASSUME ShapeInv, FreshInv, calm, NEW js \in SUBSET jobs, NEW hs, NEW new, Going(js, hs, new),
         \A j \in jobs \ js : j.op \notin Hooks,
         \A j \in jobs \ js : \A h \in HooksOf[page] : Owes(j, h) => h \in hs \/ \E m \in new : Owes(m, h),
         NEW h \in HooksOf[page]
  PROVE  Fresh(h)' \/ \E j \in jobs' : Owes(j, h)
<1>0. page \in Pages /\ h \in Hooks /\ hs \subseteq Hooks
  BY DEF Going, Hooks, ShapeInv
<1>1. CASE h \in hs
  <2>1. Load(h) \in jobs'
    BY <1>1, GoingOn
  <2>2. Load(h)' = Load(h)
    BY DEF Load, Job
  <2> QED BY <2>1, <2>2 DEF Fresh
<1>2. CASE h \notin hs /\ Fresh(h)
  <2>1. ASSUME NEW j, j.op = h
        PROVE  j \in jobs' <=> j \in jobs
    <3>1. j \notin new
      BY <1>0, <2>1 DEF Going
    <3>2. j \in jobs => j \in js
      BY <1>0, <2>1
    <3>3. j \in js => j \in jobs'
      BY <1>2, <2>1, GoingOn
    <3>4. j \in jobs' => j \in js
      BY <1>2, <2>1, <3>1, GoingOn
    <3> QED BY <3>2, <3>3, <3>4
  <2>2. db' = db /\ shown' = shown
    BY DEF Going
  <2> QED BY <1>0, <1>2, <2>1, <2>2, FreshKept
<1>3. CASE h \notin hs /\ \E j \in jobs : Owes(j, h)
  <2>1. PICK j \in jobs : Owes(j, h)
    BY <1>3
  <2>2. CASE j \in js
    <3>1. j.op \notin hs
      BY <1>0, <2>1, OwesNoRead
    <3> QED BY <2>1, <2>2, <3>1, GoingOn
  <2>3. CASE j \notin js
    <3>1. PICK m \in new : Owes(m, h)
      BY <1>3, <2>1, <2>3
    <3> QED BY <3>1, GoingOn
  <2> QED BY <2>2, <2>3
<1> QED BY <1>1, <1>2, <1>3 DEF FreshInv

LEMMA FreshServed ==
  ASSUME ShapeInv, FreshInv, calm', NEW j \in jobs, NEW m, ServedEffect(j, m), NEW h \in HooksOf[page]
  PROVE  Fresh(h)' \/ \E k \in jobs' : Owes(k, h)
<1>0. page \in Pages /\ h \in Hooks /\ calm
  BY DEF ServedEffect, Hooks, ShapeInv
<1>1. CASE j.op = h
  <2>1. db' = db /\ m.code = "ok" /\ m.body = View(h) /\ m \in jobs' /\ m.op = h /\ m.stage = "answered"
    BY <1>0, <1>1 DEF ServedEffect
  <2>2. View(h)' = View(h)
    BY <2>1 DEF View
  <2> QED BY <2>1, <2>2 DEF Fresh
<1>2. CASE \E k \in jobs : Owes(k, h)
  <2>1. PICK k \in jobs : Owes(k, h)
    BY <1>2
  <2>2. CASE k # j
    BY <2>1, <2>2 DEF ServedEffect
  <2>3. CASE k = j
    <3>1. Owes(m, h)
      BY <2>1, <2>3 DEF Owes, Succeeded, ServedEffect
    <3> QED BY <3>1 DEF ServedEffect
  <2> QED BY <2>2, <2>3
<1>3. CASE j.op # h /\ Fresh(h)
  <2>1. CASE Owes(m, h)
    BY <2>1 DEF ServedEffect
  <2>2. CASE \A t \in TablesOf(h) : db'[t] = db[t]
    <3>1. \A k : k.op = h => (k \in jobs' <=> k \in jobs)
      BY <1>3 DEF ServedEffect
    <3>2. shown' = shown
      BY DEF ServedEffect
    <3> QED BY <1>0, <1>3, <2>2, <3>1, <3>2, FreshKept
  <2> QED BY <2>1, <2>2 DEF ServedEffect
<1> QED BY <1>0, <1>1, <1>2, <1>3 DEF FreshInv

LEMMA FreshRead ==
  ASSUME ShapeInv, ReadInv, FreshInv, calm, NEW j \in jobs, ReadEffect(j), NEW h \in HooksOf[page]
  PROVE  Fresh(h)' \/ \E k \in jobs' : Owes(k, h)
<1>0. page \in Pages /\ h \in Hooks
  BY DEF Hooks, ShapeInv
<1>1. CASE \E k \in jobs : Owes(k, h)
  <2>1. PICK k \in jobs : Owes(k, h)
    BY <1>1
  <2>2. k # j
    BY <2>1, OwesNoRead DEF ReadEffect
  <2> QED BY <2>1, <2>2 DEF ReadEffect
<1>2. CASE Fresh(h) /\ j.op # h
  <2>1. \A k : k.op = h => (k \in jobs' <=> k \in jobs)
    BY <1>2 DEF ReadEffect
  <2>2. shown'[h] = shown[h] /\ db' = db
    BY <1>2 DEF ReadEffect, ShapeInv
  <2> QED BY <1>0, <1>2, <2>1, <2>2, FreshKept
<1>3. CASE Fresh(h) /\ j.op = h
  <2>1. \A k \in jobs : k.op = h => k = j
    BY <1>0, <1>3 DEF ReadInv
  <2>2. Load(h) \notin jobs
    BY <2>1, LoadMade DEF ReadEffect
  <2>3. j.code = "ok" /\ j.body = View(h)
    BY <1>3, <2>1, <2>2 DEF Fresh
  <2>4. shown'[h] = View(h) /\ \A k \in jobs' : k.op # h
    BY <1>3, <2>1, <2>3 DEF ReadEffect, ShapeInv
  <2>5. View(h)' = View(h)
    BY DEF ReadEffect, View
  <2> QED BY <2>4, <2>5 DEF Fresh
<1> QED BY <1>1, <1>2, <1>3 DEF FreshInv

LEMMA FreshStep == ShapeInv /\ ReadInv /\ FreshInv /\ [Next]_vars => FreshInv'
<1> SUFFICES ASSUME ShapeInv, ReadInv, FreshInv, [Next]_vars, calm', NEW h \in HooksOf[page']
             PROVE  Fresh(h)' \/ \E j \in jobs' : Owes(j, h)'
  BY DEF FreshInv
<1>0. \A j : Owes(j, h)' <=> Owes(j, h)
  BY DEF Owes, Succeeded
<1>1. CASE QuietEffect
  <2>1. calm /\ h \in HooksOf[page] /\ (Fresh(h)' <=> Fresh(h)) /\ jobs' = jobs
    BY <1>1 DEF QuietEffect, Fresh, View, Load, Job
  <2> QED BY <1>0, <2>1 DEF FreshInv
<1>2. ASSUME NEW hs, NEW new, StartEffect(hs, new)
      PROVE  Fresh(h)' \/ \E j \in jobs' : Owes(j, h)
  <2>1. Going(jobs, hs, new) /\ calm /\ h \in HooksOf[page]
    BY <1>2 DEF StartEffect, Going
  <2> QED BY <2>1, FreshGoing
<1>3. ASSUME NEW j \in jobs, NEW hs, NEW new, HeardEffect(j, hs, new)
      PROVE  Fresh(h)' \/ \E k \in jobs' : Owes(k, h)
  <2>1. Going(jobs \ {j}, hs, new) /\ calm /\ h \in HooksOf[page] /\ j.op \notin Hooks
    BY <1>3 DEF HeardEffect, Going
  <2>2. \A x \in HooksOf[page] : Owes(j, x) => x \in hs \/ \E m \in new : Owes(m, x)
    BY <1>3 DEF HeardEffect
  <2>3. \A k \in jobs \ (jobs \ {j}) : k = j
    OBVIOUS
  <2>4. jobs \ {j} \in SUBSET jobs
    OBVIOUS
  <2> QED BY <2>1, <2>2, <2>3, <2>4, FreshGoing
<1>4. ASSUME NEW j \in jobs, NEW m, ServedEffect(j, m)
      PROVE  Fresh(h)' \/ \E k \in jobs' : Owes(k, h)
  <2>1. h \in HooksOf[page]
    BY <1>4 DEF ServedEffect
  <2> QED BY <1>4, <2>1, FreshServed
<1>5. ASSUME NEW j \in jobs, ReadEffect(j)
      PROVE  Fresh(h)' \/ \E k \in jobs' : Owes(k, h)
  <2>1. h \in HooksOf[page] /\ calm
    BY <1>5 DEF ReadEffect
  <2> QED BY <1>5, <2>1, FreshRead
<1>6. CASE ElsewhereEffect
  BY <1>6 DEF ElsewhereEffect
<1> QED BY <1>0, <1>1, <1>2, <1>3, <1>4, <1>5, <1>6, NextSplit

LEMMA InitFresh == Init => FreshInv
<1> SUFFICES ASSUME Init, NEW h \in HooksOf[page]
             PROVE  Fresh(h)
  BY DEF FreshInv
<1>1. PICK state, rows, first : MountedWith(state, rows, first)
  BY InitMounted
<1>2. CASE h \in first
  BY <1>1, <1>2 DEF MountedWith, Fresh
<1>3. CASE h \notin first
  <2>1. shown[h] = View(h)
    BY <1>1, <1>3 DEF MountedWith, View
  <2>2. ASSUME NEW j \in jobs
        PROVE  j.op # h
    <3>1. PICK x \in first : j = Load(x)
      BY <1>1 DEF MountedWith
    <3> QED BY <1>3, <3>1, LoadMade
  <2> QED BY <2>1, <2>2 DEF Fresh
<1> QED BY <1>2, <1>3

-----------------------------------------------------------------------------
(* The candidate of Discovery is decided once.                             *)

LEMMA OneHandlerStep == ShapeInv /\ OneHandler /\ [Next]_vars => OneHandler'
<1> SUFFICES ASSUME ShapeInv, OneHandler, [Next]_vars, tidy',
                    NEW j \in jobs', NEW k \in jobs', j.op \notin Hooks, k.op \notin Hooks
             PROVE  j = k
  BY DEF OneHandler, Handlers
<1>0. tidy => \A x, y \in jobs : x.op \notin Hooks /\ y.op \notin Hooks => x = y
  BY DEF OneHandler, Handlers
<1>1. CASE QuietEffect \/ ElsewhereEffect
  BY <1>0, <1>1 DEF QuietEffect, ElsewhereEffect
<1>2. ASSUME NEW js, NEW hs, NEW new, Going(js, hs, new), NEW x \in jobs', x.op \notin Hooks
      PROVE  x \in new \/ x \in js
  <2>1. x.op \notin hs
    BY <1>2 DEF Going, Hooks, ShapeInv
  <2> QED BY <1>2, <2>1, GoingOn
<1>3. ASSUME NEW hs, NEW new, StartEffect(hs, new)
      PROVE  j = k
  <2>1. Going(jobs, hs, new)
    BY <1>3 DEF StartEffect
  <2>2. (j \in new \/ j \in jobs) /\ (k \in new \/ k \in jobs)
    BY <1>2, <2>1
  <2>3. CASE new = {}
    <3>1. tidy
      BY <1>3 DEF StartEffect
    <3> QED BY <1>0, <2>2, <2>3, <3>1
  <2>4. CASE new # {}
    <3>1. Handlers = {}
      BY <1>3, <2>4 DEF StartEffect
    <3>2. j \in new /\ k \in new
      BY <2>2, <3>1 DEF Handlers
    <3> QED BY <2>1, <3>2 DEF Going
  <2> QED BY <2>3, <2>4
<1>4. ASSUME NEW h \in jobs, NEW hs, NEW new, HeardEffect(h, hs, new)
      PROVE  j = k
  <2>1. Going(jobs \ {h}, hs, new) /\ tidy /\ h.op \notin Hooks
    BY <1>4 DEF HeardEffect
  <2>2. (j \in new \/ j \in jobs \ {h}) /\ (k \in new \/ k \in jobs \ {h})
    BY <1>2, <2>1
  <2>3. j \in new /\ k \in new
    BY <1>0, <2>1, <2>2
  <2> QED BY <2>1, <2>3 DEF Going
<1>5. ASSUME NEW h \in jobs, NEW m, ServedEffect(h, m)
      PROVE  j = k
  BY <1>0, <1>5 DEF ServedEffect
<1>6. ASSUME NEW h \in jobs, ReadEffect(h)
      PROVE  j = k
  BY <1>0, <1>6 DEF ReadEffect
<1> QED BY <1>1, <1>3, <1>4, <1>5, <1>6, NextSplit

\* What the route of a form does to the candidate and to its unit.
LEMMA CandidateAfter ==
  ASSUME ShapeInv, NEW f \in Forms, NEW arg, NEW n, NEW rows \in After(f, arg, n)
  PROVE  /\ f = "accept" => rows["candidates"] = {"merged"}
         /\ f = "merge" => rows["candidates"] = {"merged"}
         /\ f = "reject" => rows["candidates"] = {"rejected"}
         /\ f = "suggest" => rows["candidates"] = IF db["candidates"] = {} THEN {"new"} ELSE db["candidates"]
         /\ f \notin {"accept", "merge", "reject", "suggest"} => rows["candidates"] = db["candidates"]
         /\ FormOf[f].page = "discovery" /\ f # "accept" => rows["units"] = db["units"]
         /\ FormOf[f].page # "discovery" => rows["candidates"] = db["candidates"]
<1>0. DOMAIN db = Tables /\ "candidates" \in Tables /\ "units" \in Tables /\ "intent" \in Tables
  BY DEF ShapeInv, Tables
<1>1. \A t \in Tables \ (FormOf[f].writes \cup FormOf[f].may) : rows[t] = db[t]
  BY <1>0, AfterWrites
<1>2. f = "accept" => rows["candidates"] = {"merged"}
  BY <1>0 DEF After
<1>3. f = "merge" => rows["candidates"] = {"merged"}
  BY <1>0 DEF After
<1>4. f = "reject" => rows["candidates"] = {"rejected"}
  BY <1>0 DEF After
<1>5. f = "suggest" => rows["candidates"] = IF db["candidates"] = {} THEN {"new"} ELSE db["candidates"]
  BY <1>0 DEF After, Written
<1>6. f \notin {"accept", "merge", "reject", "suggest"} => rows["candidates"] = db["candidates"]
  BY <1>0, <1>1, CandidateWriters
<1>7. FormOf[f].page = "discovery" /\ f # "accept" => rows["units"] = db["units"]
  BY <1>0, <1>1, CandidateWriters
<1>8. FormOf[f].page # "discovery" => rows["candidates"] = db["candidates"]
  BY <1>0, <1>1, CandidateWriters
<1> QED BY <1>2, <1>3, <1>4, <1>5, <1>6, <1>7, <1>8

\* On a page without the candidate's forms nothing touches it, and on Discovery
\* the units are left alone but by accepting.
LEMMA CandidateServed ==
  ASSUME ShapeInv, OneHandler, CandidateInv, NEW j \in jobs,
         ReadAnswered(j) \/ FormServed(j) \/ UploadServed(j) \/ BulkServed(j)
  PROVE  CandidateInv'
<1>0. DOMAIN db = Tables /\ "candidates" \in Tables /\ "units" \in Tables
      /\ j.op \in Ops /\ page \in Pages /\ JobShape(j)
  BY DEF ShapeInv, Tables
<1>1. PICK m : ServedEffect(j, m)
  BY ReadServedStep, FormServedStep, UploadServedStep, BulkServedStep
<1>2. page' = page /\ tidy' = tidy /\ (calm' => calm) /\ jobs' = (jobs \ {j}) \cup {m} /\ m.op = j.op
      /\ m.stage = "answered" /\ j.stage = "sent"
  BY <1>1 DEF ServedEffect
<1>3. CASE db'["candidates"] = db["candidates"] /\ (page = "discovery" => db'["units"] = db["units"])
  BY <1>2, <1>3 DEF CandidateInv
<1>4. CASE ReadAnswered(j)
  <2>1. db' = db
    BY <1>0, <1>4, JobAnswered DEF ReadAnswered
  <2> QED BY <1>3, <2>1
<1>5. CASE UploadServed(j)
  <2>1. page # "discovery"
    BY <1>0, <1>5, OpsSplit DEF UploadServed
  <2>2. ASSUME NEW code, NEW body, NEW rows, Answers(j, code, body, rows), rows["candidates"] = db["candidates"]
        PROVE  db'["candidates"] = db["candidates"]
    BY <2>2 DEF Answers
  <2>3. db'["candidates"] = db["candidates"]
    BY <1>0, <1>5, <2>2 DEF UploadServed
  <2> QED BY <1>3, <2>1, <2>3
<1>6. CASE BulkServed(j)
  <2>1. page # "discovery"
    BY <1>0, <1>6, OpsSplit DEF BulkServed
  <2>2. ASSUME NEW code, NEW body, NEW rows, Answers(j, code, body, rows), rows["candidates"] = db["candidates"]
        PROVE  db'["candidates"] = db["candidates"]
    BY <2>2 DEF Answers
  <2>3. db'["candidates"] = db["candidates"]
    BY <1>0, <1>6, <2>2 DEF BulkServed
  <2> QED BY <1>3, <2>1, <2>3
<1>7. CASE FormServed(j)
  <2>1. j.op \in Forms /\ FormOf[j.op].page = page
    BY <1>0, <1>7, OpsSplit DEF FormServed
  <2>2. CASE db' = db
    BY <1>3, <2>2
  <2>3. ASSUME NEW rows \in After(j.op, j.arg, j.n), db' = rows
        PROVE  CandidateInv'
    <3>1. CASE j.op \notin {"accept", "merge", "reject", "suggest"} \/ page # "discovery"
      BY <1>3, <2>1, <2>3, <3>1, CandidateAfter
    <3>2. CASE j.op \in {"accept", "merge", "reject", "suggest"} /\ page = "discovery"
      <4>1. db'["candidates"] \in {{}, {"new"}, {"merged"}, {"rejected"}}
        BY <2>1, <2>3, <3>2, CandidateAfter DEF CandidateInv
      <4>2. ASSUME calm', tidy'
            PROVE  FromCandidate \in db'["units"] => db'["candidates"] = {"merged"}
        <5>1. CASE j.op = "accept"
          BY <2>1, <2>3, <5>1, CandidateAfter
        <5>2. CASE j.op # "accept"
          <6>1. db'["units"] = db["units"]
            BY <2>1, <2>3, <3>2, <5>2, CandidateAfter
          <6>2. FromCandidate \in db["units"] => db["candidates"] = {"merged"}
            BY <1>2, <3>2, <4>2 DEF CandidateInv
          <6>3. j.op \in {"merge", "reject"} => db["candidates"] = {"new"}
            BY <1>2, <3>2, <4>2 DEF CandidateInv
          <6>4. j.op = "suggest" /\ db["candidates"] = {"merged"} => db'["candidates"] = {"merged"}
            BY <2>1, <2>3, CandidateAfter
          <6> QED BY <3>2, <5>2, <6>1, <6>2, <6>3, <6>4
        <5> QED BY <5>1, <5>2
      <4>3. ASSUME tidy', NEW k \in jobs', k.op \in {"accept", "merge", "reject"}, k.stage = "sent"
            PROVE  FALSE
        <5>1. k \in jobs /\ k # j
          BY <1>2, <4>3
        <5>2. k.op \notin Hooks /\ j.op \notin Hooks
          BY <2>1, <4>3, NamesApart, FormsNamed
        <5> QED BY <1>2, <4>3, <5>1, <5>2 DEF OneHandler, Handlers
      <4> QED BY <1>2, <3>2, <4>1, <4>2, <4>3 DEF CandidateInv
    <3> QED BY <3>1, <3>2
  <2>4. db' = db \/ \E rows \in After(j.op, j.arg, j.n) : db' = rows
    BY <1>7 DEF FormServed, Answers
  <2> QED BY <2>2, <2>3, <2>4
<1> QED BY <1>4, <1>5, <1>6, <1>7

\* A candidate that has buttons is new in the table too, when no two handlers
\* overlapped and nothing was lost.
LEMMA OfferedIsNew ==
  ASSUME ShapeInv, FreshInv, CandidateInv, NEW f \in {"accept", "merge", "reject"}, Submit(f), calm', tidy'
  PROVE  db["candidates"] = {"new"}
<1>0. FormOf[f].page = "discovery" /\ FormOf[f].where = "candidates"
  BY DEF FormOf, Form, Accept, Merge, Reject
<1>1. page = "discovery" /\ calm /\ Handlers = {}
  BY <1>0 DEF Submit, Offered, Starts
<1>2. ~Loading("candidates") /\ "new" \in shown["candidates"].candidates
  BY <1>0 DEF Submit, Offered
<1>3. "candidates" \in HooksOf[page]
  BY <1>1 DEF HooksOf, DiscoveryHooks
<1>4. \A j \in jobs : j.op # "candidates" /\ ~Owes(j, "candidates")
  <2>1. \A j \in jobs : j.op \in Hooks
    BY <1>1 DEF Handlers
  <2>2. \A j \in jobs : ~Owes(j, "candidates")
    BY <2>1, OwesNoRead
  <2>3. Load("candidates").op = "candidates"
    BY LoadMade
  <2> QED BY <1>2, <2>2, <2>3 DEF Loading
<1>5. Load("candidates") \notin jobs
  BY <1>4, LoadMade
<1>6. shown["candidates"] = View("candidates")
  BY <1>1, <1>3, <1>4, <1>5 DEF FreshInv, Fresh
<1>7. View("candidates").candidates = db["candidates"]
  BY DEF View, TablesOf
<1> QED BY <1>2, <1>6, <1>7 DEF CandidateInv

LEMMA CandidateStep ==
  ShapeInv /\ FreshInv /\ OneHandler /\ CandidateInv /\ [Next]_vars => CandidateInv'
<1> SUFFICES ASSUME ShapeInv, FreshInv, OneHandler, CandidateInv, [Next]_vars
             PROVE  CandidateInv'
  OBVIOUS
<1>1. ASSUME UNCHANGED <<page, db>>, calm' => calm, tidy' => tidy,
             page = "discovery" /\ calm' /\ tidy' =>
               \A k \in jobs' \ jobs : k.op \in {"accept", "merge", "reject"} => db["candidates"] = {"new"}
      PROVE  CandidateInv'
  BY <1>1 DEF CandidateInv
<1>2. CASE Click
  <2>1. ASSUME NEW f \in Forms, Submit(f)
        PROVE  CandidateInv'
    <3>1. UNCHANGED <<page, db, calm>> /\ (tidy' => tidy)
      BY <2>1 DEF Submit, Starts
    <3>2. PICK arg : jobs' = jobs \cup {Job(f, arg, acts + 1)}
      BY <2>1 DEF Submit, Starts
    <3>3. Job(f, arg, acts + 1).op = f
      BY DEF Job
    <3>4. \A k \in jobs' \ jobs : k.op = f
      BY <3>2, <3>3
    <3>5. calm' /\ tidy' /\ f \in {"accept", "merge", "reject"} => db["candidates"] = {"new"}
      BY <2>1, OfferedIsNew
    <3> QED BY <1>1, <3>1, <3>4, <3>5
  <2>2. CASE StartBulk
    <3>1. UNCHANGED <<page, db, calm>> /\ (tidy' => tidy) /\ page # "discovery"
      BY <2>2 DEF StartBulk, Starts, BulkOffered
    <3> QED BY <1>1, <3>1
  <2>3. ASSUME NEW file \in Workbooks, StartUpload(file)
        PROVE  CandidateInv'
    <3>1. UNCHANGED <<page, db, calm>> /\ (tidy' => tidy) /\ page # "discovery"
      BY <2>3 DEF StartUpload
    <3> QED BY <1>1, <3>1
  <2> QED BY <1>2, <2>1, <2>2, <2>3 DEF Click
<1>3. CASE Look \/ UNCHANGED vars
  BY <1>1, <1>3, QuietStep DEF Look, QuietEffect
<1>4. CASE Served
  BY <1>4, CandidateServed DEF Served
<1>5. CASE Heard
  <2>1. ASSUME NEW j \in jobs, ReadEffect(j)
        PROVE  CandidateInv'
    BY <1>1, <2>1 DEF ReadEffect
  <2>2. ASSUME NEW j \in jobs, NEW hs, NEW new, HeardEffect(j, hs, new)
        PROVE  CandidateInv'
    <3>1. Going(jobs \ {j}, hs, new) /\ UNCHANGED <<page, db, tidy>> /\ (calm' => calm)
      BY <2>2 DEF HeardEffect, Going
    <3>2. ASSUME NEW k \in jobs' \ jobs, k.op \in {"accept", "merge", "reject"}
          PROVE  FALSE
      <4>1. k.op \in Forms \ Hooks
        BY <3>2, FormsNamed, NamesApart
      <4>2. k \notin new
        BY <2>2, <4>1 DEF HeardEffect
      <4>3. k.op \notin hs
        BY <3>1, <4>1 DEF Going, Hooks, ShapeInv
      <4> QED BY <3>1, <3>2, <4>2, <4>3, GoingOn
    <3> QED BY <1>1, <3>1, <3>2
  <2> QED BY <1>5, <2>1, <2>2, ReadHeardStep, FormHeardStep, UploadHeardStep, BulkHeardStep DEF Heard
<1>6. CASE Elsewhere
  <2>1. ElsewhereEffect
    BY <1>6, ElsewhereStep
  <2>2. db'["candidates"] = db["candidates"] /\ page' = page /\ ~calm'
    BY <2>1 DEF ElsewhereEffect, Tables
  <2> QED BY <2>2 DEF CandidateInv
<1> QED BY <1>2, <1>3, <1>4, <1>5, <1>6 DEF Next

LEMMA InitCandidate == Init => OneHandler /\ CandidateInv
<1> SUFFICES ASSUME Init
             PROVE  OneHandler /\ CandidateInv
  OBVIOUS
<1>1. PICK state, rows, first :
        /\ MountedWith(state, rows, first)
        /\ rows["candidates"] \in {{}, {"new"}}
        /\ page # "discovery" => rows["candidates"] = {}
        /\ page = "discovery" => FromCandidate \notin rows["units"]
        /\ first \subseteq HooksOf[page]
  BY InitMounted
<1>2. db = rows
  BY <1>1 DEF MountedWith
<1>3. ShapeInv /\ ReadInv
  BY InitShape
<1>4. ASSUME NEW j \in jobs
      PROVE  j.op \in Hooks
  <2>1. PICK h \in first : j = Load(h)
    BY <1>1 DEF MountedWith
  <2>2. h \in Hooks
    BY <1>1, <1>3 DEF Hooks, ShapeInv
  <2> QED BY <2>1, <2>2, LoadMade
<1>5. OneHandler
  BY <1>4 DEF OneHandler, Handlers
<1>6. \A j \in jobs : j.op \notin {"accept", "merge", "reject"}
  BY <1>4, NamesApart, FormsNamed
<1>7. CandidateInv
  BY <1>1, <1>2, <1>6 DEF CandidateInv
<1> QED BY <1>5, <1>7

-----------------------------------------------------------------------------
(* The search shows every hit.                                             *)

LEMMA RegroupedOpens ==
  ASSUME NEW u, NEW items, {"expanded", "collapsed", "search"} \subseteq DOMAIN u,
         NEW v, v = Regrouped(u, items), v.search
  PROVE  Unfolded(v, items) = Filtered(v, items)
<1>1. u.search
  BY DEF Regrouped
<1>2. v = [u EXCEPT !.expanded = {f \in Functions : Group(f, u, items) # {}}, !.collapsed = {}]
  BY <1>1 DEF Regrouped
<1>3. /\ v.expanded = {f \in Functions : Group(f, u, items) # {}}
      /\ v.collapsed = {} /\ v.search = u.search
  BY <1>2
<1>4. Filtered(v, items) = Filtered(u, items)
  BY <1>3 DEF Filtered
<1>5. ASSUME NEW c \in Filtered(u, items)
      PROVE  FunctionOf[c] \in v.expanded
  <2>1. c \in Codes
    BY <1>5 DEF Filtered
  <2>2. c \in Group(FunctionOf[c], u, items)
    BY <1>5 DEF Group
  <2> QED BY <1>3, <2>1, <2>2, FunctionAssumption
<1> QED BY <1>3, <1>4, <1>5 DEF Unfolded

OpensHits ==
  page = "workUnits" /\ ui'.search
  /\ <<ui.search, shown["units"]>>' # <<ui.search, shown["units"]>>
  => LET items == shown'["units"].units IN Unfolded(ui', items) = Filtered(ui', items)

LEMMA HitsStep == ShapeInv /\ [Next]_vars => OpensHits
<1> SUFFICES ASSUME ShapeInv, [Next]_vars, page = "workUnits", ui'.search,
                    ~(ui'.search = ui.search /\ shown'["units"] = shown["units"])
             PROVE  Unfolded(ui', shown'["units"].units) = Filtered(ui', shown'["units"].units)
  BY DEF OpensHits
<1>0. /\ {"busy", "tab", "sel", "search", "expanded", "collapsed", "upload"} \subseteq DOMAIN ui
      /\ DOMAIN shown = HooksOf[page] /\ page \in Pages
  BY DEF ShapeInv
<1>1. CASE Click
  <2>1. shown' = shown
    BY <1>1 DEF Click, Submit, StartUpload, StartBulk
  <2>2. CASE \E f \in Forms : Submit(f)
    BY <1>0, <2>1, <2>2 DEF Submit
  <2>3. CASE StartBulk
    BY <1>0, <2>1, <2>3 DEF StartBulk
  <2>4. CASE \E file \in Workbooks : StartUpload(file)
    <3>1. ui' = ui \/ (\E u : ui' = [ui EXCEPT !.upload = u])
            \/ (\E u : ui' = [ui EXCEPT !.busy = @ \cup {"upload"}, !.upload = u])
      BY <2>4 DEF StartUpload
    <3> QED BY <1>0, <2>1, <3>1
  <2> QED BY <1>1, <2>2, <2>3, <2>4 DEF Click
<1>2. CASE Browse
  <2>1. shown' = shown
    BY <1>2 DEF Browse
  <2>2. CASE Search
    <3>1. PICK u : u = [ui EXCEPT !.search = ~@]
      OBVIOUS
    <3>2. {"expanded", "collapsed", "search"} \subseteq DOMAIN u /\ ui' = Regrouped(u, shown["units"].units)
      BY <1>0, <2>2, <3>1 DEF Search
    <3> QED BY <2>1, <3>2, RegroupedOpens
  <2>3. CASE ToggleGroup \/ ToggleIndustry \/ ExpandAll \/ CollapseAll \/ SelectRow
    <3>1. ui'.search = ui.search
      BY <1>0, <2>3 DEF ToggleGroup, ToggleIndustry, ExpandAll, CollapseAll, SelectRow
    <3> QED BY <2>1, <3>1
  <2> QED BY <1>2, <2>2, <2>3 DEF Browse
<1>3. CASE SwitchTab \/ Explore
  BY <1>3 DEF SwitchTab, Explore
<1>4. CASE Served \/ Elsewhere \/ UNCHANGED vars
  BY <1>4 DEF Served, ReadAnswered, FormServed, UploadServed, BulkServed, Elsewhere, vars
<1>5. CASE Heard
  <2>1. ASSUME NEW j \in jobs, HearRead(j), Rendered(j)
        PROVE  Unfolded(ui', shown'["units"].units) = Filtered(ui', shown'["units"].units)
    <3>1. CASE j.code = "ok" /\ j.op \in {"units", "profiles"}
      <4>1. ui' = Regrouped(ui, shown'["units"].units)
        BY <2>1, <3>1 DEF Rendered
      <4> QED BY <1>0, <4>1, RegroupedOpens
    <3>2. CASE ~(j.code = "ok" /\ j.op \in {"units", "profiles"})
      <4>1. ui' = ui
        BY <2>1, <3>2 DEF Rendered
      <4>2. shown'["units"] = shown["units"]
        BY <2>1, <3>2 DEF HearRead
      <4> QED BY <4>1, <4>2
    <3> QED BY <3>1, <3>2
  <2>2. ASSUME NEW j \in jobs, HearForm(j)
        PROVE  FALSE
    BY <1>0, <2>2 DEF HearForm
  <2>3. ASSUME NEW j \in jobs, HearUpload(j)
        PROVE  FALSE
    <3>1. shown' = shown
      BY <2>3 DEF HearUpload
    <3>2. \/ ui' = ui \/ \E u : ui' = [ui EXCEPT !.upload = u]
          \/ \E u : ui' = [ui EXCEPT !.upload = u, !.busy = @ \ {"upload"}]
          \/ \E x : ui' = [ui EXCEPT !.upload.cache = @ \cup {x}]
      BY <2>3 DEF HearUpload, Continue
    <3>3. ui'.search = ui.search
      BY <1>0, <3>2
    <3> QED BY <3>1, <3>3
  <2>4. ASSUME NEW j \in jobs, HearBulk(j)
        PROVE  FALSE
    BY <1>0, <2>4 DEF HearBulk
  <2> QED BY <1>5, <2>1, <2>2, <2>3, <2>4 DEF Heard
<1> QED BY <1>1, <1>2, <1>3, <1>4, <1>5 DEF Next, Look

-----------------------------------------------------------------------------
(* Sequences, and least numbers.                                           *)

LEMMA LeastNumber ==
  ASSUME NEW S, S \subseteq Nat, S # {}
  PROVE  \E x \in S : \A y \in S : x <= y
<1>1. PICK x \in S : \A y \in S : ~ (<<y, x>> \in OpToRel(<, Nat))
  BY NatLessThanWellFounded, WFMin
<1>2. ASSUME NEW y \in S
      PROVE  x <= y
  <2>1. <<y, x>> \in Nat \X Nat
    OBVIOUS
  <2>2. ~ (y < x)
    BY <1>1, <2>1 DEF OpToRel
  <2> QED BY <2>2
<1> QED BY <1>2

LEMMA MinIsLeast ==
  ASSUME NEW S, S \subseteq Nat, S # {}
  PROVE  Min(S) \in S /\ \A y \in S : Min(S) <= y
BY LeastNumber DEF Min

\* The first of the numbers up to n that are in S: the one before is not.
LEMMA FirstOf ==
  ASSUME NEW n \in Nat, NEW S, S \subseteq 0..n, S # {}
  PROVE  \E x \in S : x \in 0..n /\ (x # 0 => x - 1 \in 0..n /\ x - 1 \notin S)
<1>1. S \subseteq Nat
  OBVIOUS
<1>2. PICK x \in S : \A y \in S : x <= y
  BY <1>1, LeastNumber
<1>3. x \in 0..n
  OBVIOUS
<1>4. x # 0 => x - 1 \in 0..n /\ ~ (x <= x - 1)
  BY <1>3
<1> QED BY <1>2, <1>3, <1>4

LEMMA AppendKept ==
  ASSUME NEW S, NEW s \in Seq(S), NEW e \in S
  PROVE  /\ Append(s, e) \in Seq(S)
         /\ Len(Append(s, e)) = Len(s) + 1
         /\ ToSet(Append(s, e)) = ToSet(s) \cup {e}
<1>1. /\ Append(s, e) \in Seq(S) /\ Len(Append(s, e)) = Len(s) + 1
      /\ DOMAIN Append(s, e) = 1..Len(s) + 1 /\ DOMAIN s = 1..Len(s) /\ Len(s) \in Nat
      /\ \A i \in 1..Len(s) : Append(s, e)[i] = s[i]
      /\ Append(s, e)[Len(s) + 1] = e
  OBVIOUS
<1>2. ToSet(Append(s, e)) \subseteq ToSet(s) \cup {e}
  BY <1>1 DEF ToSet
<1>3. ToSet(s) \subseteq ToSet(Append(s, e))
  BY <1>1 DEF ToSet
<1>4. e \in ToSet(Append(s, e))
  <2>1. Len(s) + 1 \in 1..Len(s) + 1
    BY <1>1
  <2> QED BY <1>1, <2>1 DEF ToSet
<1> QED BY <1>1, <1>2, <1>3, <1>4

\* A sheet is parsed to a sequence of its rows.
LEMMA ParsedIsSequence ==
  ASSUME NEW file \in Seq(Rows)
  PROVE  ParsedRows(file) \in Seq(Rows)
<1> DEFINE n == Len(file)
           Then(q, k) == IF file[k].code = Nothing THEN q ELSE Append(q, file[k])
           Parses(g, k) == g = [i \in 0..k |-> IF i = 0 THEN <<>> ELSE Then(g[i - 1], i)]
<1>0. n \in Nat
  OBVIOUS
<1>1. ASSUME NEW k \in 0..n
      PROVE  \E g : Parses(g, k)
  <2> SUFFICES ASSUME ~ \E g : Parses(g, k)
               PROVE  FALSE
    OBVIOUS
  <2>0. PICK Missing : Missing = {i \in 0..n : ~ \E g : Parses(g, i)}
    OBVIOUS
  <2>1. k \in Missing /\ Missing \subseteq 0..n
    BY <2>0
  <2>2. PICK i \in Missing : i \in 0..n /\ (i # 0 => i - 1 \in 0..n /\ i - 1 \notin Missing)
    BY <1>0, <2>1, FirstOf
  <2>3. i # 0
    <3>1. PICK g : g = [x \in 0..0 |-> <<>>]
      OBVIOUS
    <3>2. Parses(g, 0)
      BY <3>1
    <3> QED BY <2>0, <2>2, <3>2
  <2>4. i - 1 \in 0..n /\ i - 1 \notin Missing
    BY <2>2, <2>3
  <2>5. PICK g : Parses(g, i - 1)
    BY <2>0, <2>4
  <2>6. PICK h : h = [x \in 0..i |-> IF x = i THEN Then(g[i - 1], i) ELSE g[x]]
    OBVIOUS
  <2>7. ASSUME NEW x \in 0..i
        PROVE  h[x] = IF x = 0 THEN <<>> ELSE Then(h[x - 1], x)
    <3>1. CASE x = 0
      BY <1>0, <2>2, <2>3, <2>5, <2>6, <3>1
    <3>2. CASE x # 0 /\ x # i
      <4>1. x \in 0..(i - 1) /\ x - 1 \in 0..i /\ x - 1 # i
        BY <1>0, <2>2, <3>2
      <4>2. h[x] = g[x] /\ h[x - 1] = g[x - 1]
        BY <2>6, <3>2, <4>1
      <4>3. g[x] = Then(g[x - 1], x)
        BY <2>5, <3>2, <4>1
      <4> QED BY <3>2, <4>2, <4>3
    <3>3. CASE x = i
      BY <1>0, <2>2, <2>3, <2>6, <3>3
    <3> QED BY <3>1, <3>2, <3>3
  <2>8. Parses(h, i)
    BY <2>6, <2>7
  <2> QED BY <2>0, <2>2, <2>8
<1>2. PICK g : Parses(g, n) /\ ParsedRows(file) = g[n]
  <2>1. \E g : Parses(g, n)
    <3>1. n \in 0..n
      BY <1>0
    <3> QED BY <1>1, <3>1
  <2>2. Parses(CHOOSE g : Parses(g, n), n)
    BY <2>1
  <2>3. ParsedRows(file) = (CHOOSE g : Parses(g, n))[n]
    BY DEF ParsedRows
  <2> QED BY <2>2, <2>3
<1>3. ASSUME NEW k \in 0..n
      PROVE  g[k] \in Seq(Rows)
  <2> SUFFICES ASSUME g[k] \notin Seq(Rows)
               PROVE  FALSE
    OBVIOUS
  <2>0. PICK Bad : Bad = {i \in 0..n : g[i] \notin Seq(Rows)}
    OBVIOUS
  <2>1. k \in Bad /\ Bad \subseteq 0..n
    BY <2>0
  <2>2. PICK i \in Bad : i \in 0..n /\ (i # 0 => i - 1 \in 0..n /\ i - 1 \notin Bad)
    BY <1>0, <2>1, FirstOf
  <2>3. i # 0
    BY <1>0, <1>2, <2>0, <2>2
  <2>4. i - 1 \in 0..n /\ g[i - 1] \in Seq(Rows)
    BY <2>0, <2>2, <2>3
  <2>5. g[i] = Then(g[i - 1], i)
    BY <1>0, <1>2, <2>2, <2>3
  <2>6. file[i] \in Rows
    BY <1>0, <2>2, <2>3
  <2>7. g[i] \in Seq(Rows)
    BY <2>4, <2>5, <2>6
  <2> QED BY <2>0, <2>2, <2>7
<1> QED BY <1>0, <1>2, <1>3

-----------------------------------------------------------------------------
(* Every row of a workbook is counted.                                     *)

LEMMA NextNewFacts ==
  ASSUME NEW u, u.rows \in Seq(Rows), NEW i \in Nat, 1 <= i, i <= Len(u.rows) + 1
  PROVE  /\ NextNew(u, i) \in Nat /\ i <= NextNew(u, i) /\ NextNew(u, i) <= Len(u.rows) + 1
         /\ NextNew(u, i) <= Len(u.rows) => u.rows[NextNew(u, i)].code \notin u.known
         /\ \A x \in Nat : i <= x /\ x < NextNew(u, i) => u.rows[x].code \in u.known
<1>1. PICK n : n = Len(u.rows) /\ n \in Nat
  OBVIOUS
<1>2. PICK S : S = {k \in i..n : u.rows[k].code \notin u.known} \cup {n + 1}
  OBVIOUS
<1>3. PICK k : k = NextNew(u, i)
  OBVIOUS
<1>4. S \subseteq Nat /\ S # {}
  BY <1>1, <1>2
<1>5. k = Min(S)
  BY <1>1, <1>2, <1>3 DEF NextNew
<1>6. k \in S /\ \A y \in S : k <= y
  BY <1>4, <1>5, MinIsLeast
<1>7. k \in Nat /\ i <= k /\ k <= n + 1 /\ (k <= n => u.rows[k].code \notin u.known)
  BY <1>1, <1>2, <1>6
<1>8. ASSUME NEW x \in Nat, i <= x, x < k
      PROVE  u.rows[x].code \in u.known
  BY <1>1, <1>2, <1>6, <1>7, <1>8
<1> QED BY <1>1, <1>3, <1>7, <1>8

\* The rows that are known already are existing ones.
LEMMA AdvancedFacts ==
  ASSUME NEW u, {"rows", "at", "known", "cache", "created", "existing", "failed"} \subseteq DOMAIN u,
         u.rows \in Seq(Rows), u.existing \in Seq(Codes \cup {Nothing}),
         NEW i \in Nat, 1 <= i, i <= Len(u.rows) + 1, NEW v, v = Advanced(u, i)
  PROVE  /\ DOMAIN v = DOMAIN u
         /\ v.rows = u.rows /\ v.known = u.known /\ v.cache = u.cache
         /\ v.created = u.created /\ v.failed = u.failed
         /\ v.at \in Nat /\ i <= v.at /\ v.at <= Len(u.rows) + 1
         /\ v.existing \in Seq(Codes \cup {Nothing})
         /\ Len(v.existing) = Len(u.existing) + (v.at - i)
         /\ ToSet(v.existing) \subseteq ToSet(u.existing) \cup u.known
         /\ v.at <= Len(u.rows) => Code(v) \notin u.known
<1>1. PICK k : k = NextNew(u, i)
  OBVIOUS
<1>2. /\ k \in Nat /\ i <= k /\ k <= Len(u.rows) + 1
      /\ k <= Len(u.rows) => u.rows[k].code \notin u.known
      /\ \A x \in Nat : i <= x /\ x < k => u.rows[x].code \in u.known
  BY <1>1, NextNewFacts
<1>3. PICK t : t = [x \in 1..(k - i) |-> u.rows[i + x - 1].code]
  OBVIOUS
<1>4. v = [u EXCEPT !.at = k, !.existing = @ \o t]
  BY <1>1, <1>3 DEF Advanced
<1>5. /\ DOMAIN v = DOMAIN u /\ v.at = k /\ v.existing = u.existing \o t /\ v.rows = u.rows
      /\ v.known = u.known /\ v.cache = u.cache /\ v.created = u.created /\ v.failed = u.failed
  BY <1>4
<1>6. k - i \in Nat /\ Len(u.rows) \in Nat
  BY <1>2
<1>7. ASSUME NEW x \in 1..(k - i)
      PROVE  t[x] \in Codes \cup {Nothing} /\ t[x] \in u.known
  <2>1. i + x - 1 \in 1..Len(u.rows) /\ i <= i + x - 1 /\ i + x - 1 < k /\ i + x - 1 \in Nat
    BY <1>2, <1>6
  <2>2. u.rows[i + x - 1] \in Rows
    BY <2>1
  <2> QED BY <1>2, <1>3, <2>1, <2>2 DEF Rows
<1>8. t \in Seq(Codes \cup {Nothing}) /\ Len(t) = k - i
  BY <1>3, <1>6, <1>7
<1>9. /\ u.existing \o t \in Seq(Codes \cup {Nothing})
      /\ Len(u.existing \o t) = Len(u.existing) + (k - i)
  BY <1>8
<1>10. ToSet(u.existing \o t) \subseteq ToSet(u.existing) \cup u.known
  <2>1. ASSUME NEW x \in DOMAIN (u.existing \o t)
        PROVE  (u.existing \o t)[x] \in ToSet(u.existing) \cup u.known
    <3>1. CASE x <= Len(u.existing)
      <4>1. x \in DOMAIN u.existing /\ (u.existing \o t)[x] = u.existing[x]
        BY <1>8, <1>9, <2>1, <3>1
      <4> QED BY <4>1 DEF ToSet
    <3>2. CASE ~ (x <= Len(u.existing))
      <4>1. x - Len(u.existing) \in 1..(k - i) /\ (u.existing \o t)[x] = t[x - Len(u.existing)]
        BY <1>8, <1>9, <2>1, <3>2
      <4> QED BY <1>7, <4>1
    <3> QED BY <3>1, <3>2
  <2> QED BY <2>1 DEF ToSet
<1>11. Code(v) = u.rows[k].code
  BY <1>5 DEF Code
<1> QED BY <1>2, <1>5, <1>9, <1>10, <1>11

\* A row that is over adds one to the counts.
LEMMA OverCounted ==
  ASSUME NEW units, NEW u, Counted(u, units), u.at <= Len(u.rows), Code(u) \notin u.known,
         NEW code, code \in {"ok", "conflict"} => Code(u) \in units,
         NEW v, v = Advanced(RowOver(u, code), u.at + 1)
  PROVE  Counted(v, units) /\ (v.at <= Len(v.rows) => Code(v) \notin v.known)
<1> DEFINE Some == Codes \cup {Nothing}
<1>0. /\ {"rows", "at", "known", "cache", "created", "existing", "failed"} \subseteq DOMAIN u
      /\ u.rows \in Seq(Rows) /\ u.at \in Nat /\ 1 <= u.at /\ Len(u.rows) \in Nat
      /\ u.created \in Seq(Some) /\ u.existing \in Seq(Some) /\ u.failed \in Seq(Some)
      /\ Len(u.created) + Len(u.existing) + Len(u.failed) = u.at - 1
      /\ \A i, k \in DOMAIN u.created : u.created[i] = u.created[k] => i = k
      /\ ToSet(u.created) \subseteq u.known
      /\ ToSet(u.existing) \subseteq units
      /\ u.known \subseteq units
  BY DEF Counted
<1>00. /\ u.at \in Nat /\ Len(u.rows) \in Nat /\ Len(u.created) \in Nat /\ Len(u.existing) \in Nat
       /\ Len(u.failed) \in Nat /\ Len(u.created) + Len(u.existing) + Len(u.failed) = u.at - 1
       /\ u.at <= Len(u.rows)
  BY <1>0
<1>01. PICK cs \in Nat, es \in Nat, fs \in Nat, at \in Nat :
          /\ cs = Len(u.created) /\ es = Len(u.existing) /\ fs = Len(u.failed) /\ at = u.at
          /\ cs + es + fs = at - 1
  BY <1>00
<1>02. (cs + 1) + es + fs = at /\ cs + (es + 1) + fs = at /\ cs + es + (fs + 1) = at
  <2>1. cs + es + fs = at - 1
    BY <1>01
  <2> QED BY <2>1
<1>03. cs = Len(u.created) /\ es = Len(u.existing) /\ fs = Len(u.failed) /\ at = u.at
  BY <1>01
<1>1. PICK c : c = Code(u)
  OBVIOUS
<1>2. c \in Some /\ c \notin u.known
  <2>1. u.rows[u.at] \in Rows
    BY <1>0
  <2> QED BY <1>1, <2>1 DEF Rows, Code
<1>3. PICK w : w = RowOver(u, code)
  OBVIOUS
<1>4. /\ DOMAIN w = DOMAIN u /\ w.rows = u.rows /\ w.at = u.at /\ w.cache = u.cache
      /\ w.created \in Seq(Some) /\ w.existing \in Seq(Some) /\ w.failed \in Seq(Some)
      /\ Len(w.created) + Len(w.existing) + Len(w.failed) = u.at
      /\ \A i, k \in DOMAIN w.created : w.created[i] = w.created[k] => i = k
      /\ ToSet(w.created) \subseteq w.known
      /\ ToSet(w.existing) \subseteq units
      /\ w.known \subseteq units
  <2>1. CASE code = "ok"
    <3>1. PICK s : s = Append(u.created, c)
      OBVIOUS
    <3>2. w = [u EXCEPT !.created = s, !.known = @ \cup {c}]
      BY <1>1, <1>3, <2>1, <3>1 DEF RowOver
    <3>3. /\ DOMAIN w = DOMAIN u /\ w.rows = u.rows /\ w.at = u.at /\ w.cache = u.cache
          /\ w.created = s /\ w.existing = u.existing /\ w.failed = u.failed /\ w.known = u.known \cup {c}
      BY <1>0, <3>2
    <3>4. s \in Seq(Some) /\ Len(s) = Len(u.created) + 1 /\ ToSet(s) = ToSet(u.created) \cup {c}
      BY <1>0, <1>2, <3>1, AppendKept
    <3>5. ASSUME NEW i \in DOMAIN s, NEW k \in DOMAIN s, s[i] = s[k]
          PROVE  i = k
      <4>1. DOMAIN s = 1..Len(u.created) + 1 /\ DOMAIN u.created = 1..Len(u.created) /\ Len(u.created) \in Nat
        BY <1>0, <3>1
      <4>2. \A x \in 1..Len(u.created) : s[x] = u.created[x] /\ u.created[x] \in ToSet(u.created)
        BY <1>0, <3>1 DEF ToSet
      <4>3. s[Len(u.created) + 1] = c
        BY <1>0, <3>1
      <4>4. c \notin ToSet(u.created)
        BY <1>0, <1>2
      <4>5. \A x \in 1..Len(u.created) : s[x] # c
        BY <4>2, <4>4
      <4>6. CASE i \in DOMAIN u.created /\ k \in DOMAIN u.created
        BY <1>0, <3>5, <4>1, <4>2, <4>6
      <4>7. CASE i \notin DOMAIN u.created \/ k \notin DOMAIN u.created
        BY <3>5, <4>1, <4>3, <4>5, <4>7
      <4> QED BY <4>6, <4>7
    <3>6. Len(w.created) + Len(w.existing) + Len(w.failed) = u.at
      <4>2. w.created = s /\ w.existing = u.existing /\ w.failed = u.failed
        BY <3>3
      <4>3. Len(s) = Len(u.created) + 1
        BY <3>4
      <4> QED BY <1>02, <1>03, <4>2, <4>3
    <3>7. c \in units
      BY <1>1, <2>1
    <3> QED BY <1>0, <3>3, <3>4, <3>5, <3>6, <3>7
  <2>2. CASE code = "conflict"
    <3>1. PICK s : s = Append(u.existing, c)
      OBVIOUS
    <3>2. w = [u EXCEPT !.existing = s, !.known = @ \cup {c}]
      BY <1>1, <1>3, <2>2, <3>1 DEF RowOver
    <3>3. /\ DOMAIN w = DOMAIN u /\ w.rows = u.rows /\ w.at = u.at /\ w.cache = u.cache
          /\ w.created = u.created /\ w.existing = s /\ w.failed = u.failed /\ w.known = u.known \cup {c}
      BY <1>0, <3>2
    <3>4. s \in Seq(Some) /\ Len(s) = Len(u.existing) + 1 /\ ToSet(s) = ToSet(u.existing) \cup {c}
      BY <1>0, <1>2, <3>1, AppendKept
    <3>5. Len(w.created) + Len(w.existing) + Len(w.failed) = u.at
      <4>2. w.created = u.created /\ w.existing = s /\ w.failed = u.failed
        BY <3>3
      <4>3. Len(s) = Len(u.existing) + 1
        BY <3>4
      <4> QED BY <1>02, <1>03, <4>2, <4>3
    <3>6. c \in units
      BY <1>1, <2>2
    <3> QED BY <1>0, <3>3, <3>4, <3>5, <3>6
  <2>3. CASE code \notin {"ok", "conflict"}
    <3>1. PICK s : s = Append(u.failed, c)
      OBVIOUS
    <3>2. w = [u EXCEPT !.failed = s]
      BY <1>1, <1>3, <2>3, <3>1 DEF RowOver
    <3>3. /\ DOMAIN w = DOMAIN u /\ w.rows = u.rows /\ w.at = u.at /\ w.cache = u.cache
          /\ w.created = u.created /\ w.existing = u.existing /\ w.failed = s /\ w.known = u.known
      BY <1>0, <3>2
    <3>4. s \in Seq(Some) /\ Len(s) = Len(u.failed) + 1
      BY <1>0, <1>2, <3>1, AppendKept
    <3>5. Len(w.created) + Len(w.existing) + Len(w.failed) = u.at
      <4> QED BY <1>02, <1>03, <3>3, <3>4
    <3> QED BY <1>0, <3>3, <3>4, <3>5
  <2> QED BY <2>1, <2>2, <2>3
<1>5. PICK i : i = u.at + 1
  OBVIOUS
<1>6. i \in Nat /\ 1 <= i /\ i <= Len(u.rows) + 1
  BY <1>00, <1>5
<1>7. v = Advanced(w, i)
  BY <1>3, <1>5
<1>8. {"rows", "at", "known", "cache", "created", "existing", "failed"} \subseteq DOMAIN w /\ w.rows \in Seq(Rows)
      /\ w.existing \in Seq(Some) /\ i <= Len(w.rows) + 1
  BY <1>0, <1>4, <1>6
<1>9. /\ DOMAIN v = DOMAIN w
      /\ v.rows = w.rows /\ v.known = w.known /\ v.cache = w.cache
      /\ v.created = w.created /\ v.failed = w.failed
      /\ v.at \in Nat /\ i <= v.at /\ v.at <= Len(w.rows) + 1
      /\ v.existing \in Seq(Some)
      /\ Len(v.existing) = Len(w.existing) + (v.at - i)
      /\ ToSet(v.existing) \subseteq ToSet(w.existing) \cup w.known
      /\ v.at <= Len(w.rows) => Code(v) \notin w.known
  BY <1>6, <1>7, <1>8, AdvancedFacts
<1>10. Len(v.created) + Len(v.existing) + Len(v.failed) = v.at - 1
  <2>1. Len(w.created) \in Nat /\ Len(w.existing) \in Nat /\ Len(w.failed) \in Nat
    BY <1>4
  <2>2. Len(w.created) + Len(w.existing) + Len(w.failed) = u.at
    BY <1>4
  <2>3. /\ v.created = w.created /\ v.failed = w.failed /\ v.at \in Nat /\ i <= v.at
        /\ Len(v.existing) = Len(w.existing) + (v.at - i)
    BY <1>9
  <2>4. PICK a \in Nat, b \in Nat, d \in Nat, n \in Nat, k \in Nat :
          /\ a = Len(w.created) /\ b = Len(w.existing) /\ d = Len(w.failed) /\ n = u.at /\ k = v.at
          /\ a + b + d = n /\ n + 1 <= k
    BY <1>00, <1>5, <2>1, <2>2, <2>3
  <2>5. a + b + d = n /\ n + 1 <= k
    BY <2>4
  <2>6. a + (b + (k - (n + 1))) + d = k - 1
    BY <2>5
  <2>7. a = Len(w.created) /\ b = Len(w.existing) /\ d = Len(w.failed) /\ n = u.at /\ k = v.at
    BY <2>4
  <2> QED BY <1>5, <2>3, <2>6, <2>7
<1>11. ToSet(v.existing) \subseteq units
  BY <1>4, <1>9
<1>12. 1 <= v.at
  BY <1>6, <1>9
<1>13. /\ DOMAIN v = DOMAIN u /\ v.rows = u.rows /\ v.created \in Seq(Some) /\ v.failed \in Seq(Some)
       /\ v.existing \in Seq(Some)
       /\ \A x, k \in DOMAIN v.created : v.created[x] = v.created[k] => x = k
       /\ ToSet(v.created) \subseteq v.known /\ v.known \subseteq units
       /\ v.at \in Nat /\ v.at <= Len(v.rows) + 1
       /\ v.at <= Len(v.rows) => Code(v) \notin v.known
  BY <1>4, <1>9
<1> QED BY <1>0, <1>10, <1>11, <1>12, <1>13 DEF Counted

\* The tables of units and of types only grow.
LEMMA AfterGrows ==
  ASSUME ShapeInv, NEW f \in Forms, NEW arg, NEW n, NEW rows \in After(f, arg, n)
  PROVE  db["units"] \subseteq rows["units"] /\ db["types"] \subseteq rows["types"]
<1>1. DOMAIN db = Tables /\ {"units", "types", "candidates", "intent", "workEdges"} \subseteq Tables
  BY DEF ShapeInv, Tables
<1>2. CASE f \in {"addWorkEdge", "accept", "merge", "reject"}
  BY <1>1, <1>2 DEF After
<1>3. CASE f = "suggest"
  BY <1>1, <1>3 DEF After, Written
<1>4. CASE f \notin {"addWorkEdge", "accept", "merge", "reject", "suggest"}
  BY <1>1, <1>4 DEF After, Written
<1> QED BY <1>2, <1>3, <1>4

Grows == db["units"] \subseteq db'["units"] /\ db["types"] \subseteq db'["types"]

LEMMA GrowsStep ==
  ASSUME ShapeInv, [Next]_vars
  PROVE  Grows
<1>0. DOMAIN db = Tables /\ {"units", "types", "runs"} \subseteq Tables
  BY DEF ShapeInv, Tables
<1> USE DEF Grows
<1>1. ASSUME NEW j, NEW code, NEW body, NEW rows, Answers(j, code, body, rows),
             db["units"] \subseteq rows["units"], db["types"] \subseteq rows["types"]
      PROVE  Grows
  BY <1>1 DEF Answers
<1>2. ASSUME NEW j \in jobs, ReadAnswered(j)
      PROVE  Grows
  BY <1>1, <1>2 DEF ReadAnswered
<1>3. ASSUME NEW j \in jobs, FormServed(j)
      PROVE  Grows
  BY <1>1, <1>3, AfterGrows DEF FormServed
<1>4. ASSUME NEW j \in jobs, UploadServed(j)
      PROVE  Grows
  <2>1. PICK types : types = [db EXCEPT !["types"] = @ \cup {j.arg}]
    OBVIOUS
  <2>2. PICK units : units = [db EXCEPT !["units"] = @ \cup {j.arg}]
    OBVIOUS
  <2>3. \E code, body : \/ Answers(j, code, body, db)
                        \/ Answers(j, code, body, types)
                        \/ Answers(j, code, body, units)
    BY <1>4, <2>1, <2>2 DEF UploadServed
  <2>4. /\ db["units"] \subseteq types["units"] /\ db["types"] \subseteq types["types"]
        /\ db["units"] \subseteq units["units"] /\ db["types"] \subseteq units["types"]
    BY <1>0, <2>1, <2>2
  <2> QED BY <1>1, <2>3, <2>4
<1>5. ASSUME NEW j \in jobs, BulkServed(j)
      PROVE  Grows
  <2>1. PICK rows : rows = [db EXCEPT !["runs"] = @ \cup {BulkRow(j.n, j.arg)}]
    OBVIOUS
  <2>2. db["units"] \subseteq rows["units"] /\ db["types"] \subseteq rows["types"]
    BY <1>0, <2>1
  <2>3. \E code, body : Answers(j, code, body, db) \/ Answers(j, code, body, rows)
    BY <1>5, <2>1 DEF BulkServed
  <2> QED BY <1>1, <2>2, <2>3
<1>6. CASE Click
  BY <1>6 DEF Click, Submit, StartUpload, StartBulk
<1>7. CASE Look
  BY <1>7, QuietStep DEF Look, QuietEffect
<1>8. CASE Heard
  BY <1>8 DEF Heard, HearRead, HearForm, HearUpload, HearBulk
<1>9. CASE Elsewhere
  BY <1>9, ElsewhereStep DEF ElsewhereEffect
<1>10. CASE UNCHANGED vars
  BY <1>10 DEF vars
<1> QED BY <1>2, <1>3, <1>4, <1>5, <1>6, <1>7, <1>8, <1>9, <1>10 DEF Next, Served

LEMMA UnitsSeenStep ==
  ASSUME ShapeInv, page = "workUnits", UnitsSeen, [Next]_vars
  PROVE  UnitsSeen' /\ page' = page
<1>0. Grows
  BY GrowsStep
<1>00. "units" \in HooksOf[page] /\ "units" \in Hooks /\ page \in Pages /\ DOMAIN shown = HooksOf[page]
  BY PagesNamed DEF HooksOf, WorkUnitsHooks, Hooks, ShapeInv
<1>1. CASE QuietEffect
  BY <1>1 DEF QuietEffect, UnitsSeen
<1>2. ASSUME NEW js, NEW hs, NEW new, js \subseteq jobs, Going(js, hs, new)
      PROVE  UnitsSeen' /\ page' = page
  <2>1. ASSUME NEW j \in jobs', j.op = "units", Succeeded(j)
        PROVE  j.body.units \subseteq db["units"]
    <3>1. j \in new \/ j \in js \/ j = Load(j.op)
      BY <1>2, GoingOn
    <3>2. j \notin new /\ j # Load(j.op)
      <4>1. j.stage # "sent"
        BY <2>1 DEF Succeeded
      <4>2. Load(j.op).stage = "sent"
        BY LoadMade
      <4> QED BY <1>2, <4>1, <4>2 DEF Going
    <3>3. j \in jobs
      BY <1>2, <3>1, <3>2
    <3> QED BY <2>1, <3>3 DEF UnitsSeen
  <2>2. \A j : Succeeded(j)' <=> Succeeded(j)
    BY DEF Succeeded
  <2> QED BY <1>2, <2>1, <2>2 DEF Going, UnitsSeen
<1>3. ASSUME NEW hs, NEW new, StartEffect(hs, new)
      PROVE  UnitsSeen' /\ page' = page
  BY <1>2, <1>3 DEF StartEffect
<1>4. ASSUME NEW j \in jobs, NEW hs, NEW new, HeardEffect(j, hs, new)
      PROVE  UnitsSeen' /\ page' = page
  BY <1>2, <1>4 DEF HeardEffect
<1>5. ASSUME NEW j \in jobs, NEW m, ServedEffect(j, m)
      PROVE  UnitsSeen' /\ page' = page
  <2>1. ASSUME NEW k \in jobs', k.op = "units", Succeeded(k)
        PROVE  k.body.units \subseteq db'["units"]
    <3>1. CASE k \in jobs
      BY <1>0, <2>1, <3>1 DEF UnitsSeen, Grows
    <3>2. CASE k = m
      <4>1. m.body = View("units")
        BY <1>00, <1>5, <2>1, <3>2 DEF ServedEffect, Succeeded
      <4>2. View("units").units = db["units"]
        BY DEF View, TablesOf
      <4> QED BY <1>0, <3>2, <4>1, <4>2 DEF Grows
    <3> QED BY <1>5, <2>1, <3>1, <3>2 DEF ServedEffect
  <2>2. \A k : Succeeded(k)' <=> Succeeded(k)
    BY DEF Succeeded
  <2>3. shown' = shown /\ page' = page
    BY <1>5 DEF ServedEffect
  <2> QED BY <1>0, <2>1, <2>2, <2>3 DEF UnitsSeen, Grows
<1>6. ASSUME NEW j \in jobs, ReadEffect(j)
      PROVE  UnitsSeen' /\ page' = page
  <2>1. shown'["units"].units \subseteq db["units"]
    <3>1. CASE j.code = "ok" /\ j.op = "units"
      <4>1. shown'["units"] = j.body /\ Succeeded(j)
        BY <1>00, <1>6, <3>1 DEF ReadEffect, Succeeded
      <4> QED BY <3>1, <4>1 DEF UnitsSeen
    <3>2. CASE ~(j.code = "ok" /\ j.op = "units")
      BY <1>00, <1>6, <3>2 DEF ReadEffect, UnitsSeen
    <3> QED BY <3>1, <3>2
  <2>2. db' = db /\ page' = page /\ jobs' \subseteq jobs
    BY <1>6 DEF ReadEffect
  <2>3. \A k : Succeeded(k)' <=> Succeeded(k)
    BY DEF Succeeded
  <2> QED BY <2>1, <2>2, <2>3 DEF UnitsSeen
<1>7. CASE ElsewhereEffect
  <2>1. \A k : Succeeded(k)' <=> Succeeded(k)
    BY DEF Succeeded
  <2> QED BY <1>0, <1>7, <2>1 DEF ElsewhereEffect, UnitsSeen, Grows
<1> QED BY <1>1, <1>3, <1>4, <1>5, <1>6, <1>7, NextSplit

-----------------------------------------------------------------------------
(* The upload.                                                             *)

LEMMA UploadAtKept ==
  ASSUME NEW js, NEW u, NEW busy, NEW units, NEW types, UploadAt(js, u, busy, units, types),
         NEW js2, NEW busy2, NEW units2, NEW types2,
         \A j \in js2 : j.op \in UploadSteps => j \in js,
         "upload" \in busy => "upload" \in busy2,
         units \subseteq units2, types \subseteq types2
  PROVE  UploadAt(js2, u, busy2, units2, types2)
<1>1. Counted(u, units2)
  BY DEF UploadAt, Counted
<1>2. ASSUME NEW j \in js2, j.op \in UploadSteps
      PROVE  "upload" \in busy2 /\ StepFits(j, u, units2, types2)
  BY <1>2 DEF UploadAt, StepFits
<1> QED BY <1>1, <1>2 DEF UploadAt

LEMMA UploadAtOne ==
  ASSUME NEW js, NEW u, NEW busy, NEW units, NEW types, Counted(u, units), "upload" \in busy,
         NEW m, StepFits(m, u, units, types), \A j \in js : j.op \in UploadSteps => j = m
  PROVE  UploadAt(js, u, busy, units, types)
BY DEF UploadAt

\* The request of the row that the upload is at.
LEMMA FirstRequestFits ==
  ASSUME NEW u, NEW n, NEW units, NEW types, u.at <= Len(u.rows), Code(u) \notin u.known
  PROVE  StepFits(FirstRequest(u, n), u, units, types)
<1>1. PICK m : m = FirstRequest(u, n)
  OBVIOUS
<1>2. /\ m.op \in {"uploadUnit", "uploadType"} /\ m.stage = "sent"
      /\ m.op = "uploadUnit" => m.arg = Code(u)
      /\ m.op = "uploadType" => m.arg = KeyOf(u.rows[u.at])
  BY <1>1, FirstRequestMade
<1>3. m.arg = IF m.op = "uploadUnit" THEN Code(u) ELSE KeyOf(u.rows[u.at])
  BY <1>2
<1>4. StepFits(m, u, units, types)
  BY <1>2, <1>3 DEF StepFits
<1> QED BY <1>1, <1>4

LEMMA ReadsAreNoSteps ==
  ASSUME NEW h \in Hooks
  PROVE  Load(h).op \notin UploadSteps
BY LoadMade, NamesApart

\* Sending what the row needs, or ending.
LEMMA ContinueKeeps ==
  ASSUME NEW u, NEW js, NEW n, Continue(u, js, n), "upload" \in ui.busy, {"busy", "upload"} \subseteq DOMAIN ui,
         \A j \in js : j.op \notin UploadSteps,
         NEW units, NEW types, Counted(u, units), u.at <= Len(u.rows) => Code(u) \notin u.known
  PROVE  UploadAt(jobs', ui'.upload, ui'.busy, units, types)
<1>1. CASE u.at <= Len(u.rows)
  <2>1. PICK m : m = FirstRequest(u, n) /\ StepFits(m, u, units, types)
    BY <1>1, FirstRequestFits
  <2>2. ui'.upload = u /\ ui'.busy = ui.busy /\ jobs' = js \cup {m}
    BY <1>1, <2>1 DEF Continue
  <2>3. \A j \in jobs' : j.op \in UploadSteps => j = m
    BY <2>2
  <2>4. UploadAt(jobs', u, ui.busy, units, types)
    BY <2>1, <2>3, UploadAtOne
  <2> QED BY <2>2, <2>4
<1>2. CASE ~(u.at <= Len(u.rows))
  <2>1. ui'.upload = u /\ jobs' = Reloaded({"units", "types"}, js)
    BY <1>2 DEF Continue
  <2>2. "units" \notin UploadSteps /\ "types" \notin UploadSteps
    BY DEF UploadSteps
  <2>3. \A j \in jobs' : j.op \notin UploadSteps
    BY <2>1, <2>2, Asked
  <2>4. UploadAt(jobs', u, ui'.busy, units, types)
    BY <2>3 DEF UploadAt
  <2> QED BY <2>1, <2>4
<1> QED BY <1>1, <1>2

\* The first rows of a workbook.
LEMMA StartUploadKeeps ==
  ASSUME ShapeInv, UploadInv, NEW file \in Workbooks, StartUpload(file)
  PROVE  UploadAt(jobs', ui'.upload, ui'.busy, db["units"], db["types"])
<1>1. /\ page = "workUnits" /\ "upload" \notin ui.busy /\ {"busy", "upload"} \subseteq DOMAIN ui
      /\ UploadAt(jobs, ui.upload, ui.busy, db["units"], db["types"])
      /\ shown["units"].units \subseteq db["units"]
  BY DEF StartUpload, ShapeInv, UploadInv, UnitsSeen
<1>2. \A j \in jobs : j.op \notin UploadSteps
  BY <1>1 DEF UploadAt
<1>3. PICK rows : rows = ParsedRows(file) /\ rows \in Seq(Rows)
  BY ParsedIsSequence, WorkbookAssumption
<1>4. PICK u0 : u0 = [NoUpload EXCEPT !.rows = rows, !.known = shown["units"].units,
                                      !.cache = shown["types"].types]
  OBVIOUS
<1>5. PICK u : u = Advanced(u0, 1)
  OBVIOUS
<1>6. /\ {"rows", "at", "known", "cache", "created", "existing", "failed"} \subseteq DOMAIN u0
      /\ u0.rows = rows /\ u0.known = shown["units"].units /\ u0.created = <<>> /\ u0.existing = <<>>
      /\ u0.failed = <<>>
  BY <1>4 DEF NoUpload
<1>7. u0.existing \in Seq(Codes \cup {Nothing}) /\ 1 <= Len(u0.rows) + 1 /\ u0.rows \in Seq(Rows)
      /\ Len(rows) \in Nat
  BY <1>3, <1>6
<1>8. /\ DOMAIN u = DOMAIN u0
      /\ u.rows = u0.rows /\ u.known = u0.known
      /\ u.created = u0.created /\ u.failed = u0.failed
      /\ u.at \in Nat /\ 1 <= u.at /\ u.at <= Len(u0.rows) + 1
      /\ u.existing \in Seq(Codes \cup {Nothing})
      /\ Len(u.existing) = Len(u0.existing) + (u.at - 1)
      /\ ToSet(u.existing) \subseteq ToSet(u0.existing) \cup u0.known
      /\ u.at <= Len(u0.rows) => Code(u) \notin u0.known
  <2>1. PICK i \in Nat : i = 1
    OBVIOUS
  <2>2. u = Advanced(u0, i) /\ 1 <= i /\ i <= Len(u0.rows) + 1
    BY <1>5, <1>7, <2>1
  <2>3. /\ DOMAIN u = DOMAIN u0
        /\ u.rows = u0.rows /\ u.known = u0.known
        /\ u.created = u0.created /\ u.failed = u0.failed
        /\ u.at \in Nat /\ i <= u.at /\ u.at <= Len(u0.rows) + 1
        /\ u.existing \in Seq(Codes \cup {Nothing})
        /\ Len(u.existing) = Len(u0.existing) + (u.at - i)
        /\ ToSet(u.existing) \subseteq ToSet(u0.existing) \cup u0.known
        /\ u.at <= Len(u0.rows) => Code(u) \notin u0.known
    BY <1>6, <1>7, <2>2, AdvancedFacts
  <2> QED BY <2>1, <2>3
<1>9. Counted(u, db["units"])
  <2>1. ToSet(u0.existing) = {} /\ ToSet(u.created) = {} /\ DOMAIN u.created = {}
    BY <1>6, <1>8 DEF ToSet
  <2>2. u.created = <<>> /\ u.failed = <<>> /\ u0.existing = <<>>
    BY <1>6, <1>8
  <2>3. Len(u.created) = 0 /\ Len(u.failed) = 0 /\ Len(u.existing) = 0 + (u.at - 1)
    BY <1>8, <2>2
  <2>4. Len(u.created) + Len(u.existing) + Len(u.failed) = u.at - 1
    <3>1. PICK at \in Nat : at = u.at
      BY <1>8
    <3>2. 0 + (0 + (at - 1)) + 0 = at - 1
      OBVIOUS
    <3> QED BY <2>3, <3>1, <3>2
  <2>5. u.created \in Seq(Codes \cup {Nothing}) /\ u.failed \in Seq(Codes \cup {Nothing})
    BY <2>2
  <2>6. ToSet(u.existing) \subseteq db["units"] /\ u.known \subseteq db["units"]
    BY <1>1, <1>6, <1>8, <2>1
  <2> QED BY <1>6, <1>7, <1>8, <2>1, <2>4, <2>5, <2>6 DEF Counted
<1>10. CASE ui' = ui /\ jobs' = jobs
  BY <1>1, <1>10
<1>11. CASE ui' = [ui EXCEPT !.upload = u] /\ jobs' = Reloaded({"units", "types"}, jobs)
  <2>1. ui'.upload = u
    BY <1>1, <1>11
  <2>2. "units" \notin UploadSteps /\ "types" \notin UploadSteps
    BY DEF UploadSteps
  <2>3. \A j \in jobs' : j.op \notin UploadSteps
    BY <1>2, <1>11, <2>2, Asked
  <2>4. UploadAt(jobs', u, ui'.busy, db["units"], db["types"])
    BY <1>9, <2>3 DEF UploadAt
  <2> QED BY <2>1, <2>4
<1>12. CASE /\ ui' = [ui EXCEPT !.busy = @ \cup {"upload"}, !.upload = u]
            /\ jobs' = jobs \cup {FirstRequest(u, acts + 1)} /\ u.at <= Len(rows)
  <2>1. ui'.upload = u /\ "upload" \in ui'.busy
    BY <1>1, <1>12
  <2>2. u.at <= Len(u.rows) /\ Code(u) \notin u.known
    BY <1>6, <1>8, <1>12
  <2>3. PICK m : m = FirstRequest(u, acts + 1) /\ StepFits(m, u, db["units"], db["types"])
    BY <2>2, FirstRequestFits
  <2>4. \A j \in jobs' : j.op \in UploadSteps => j = m
    BY <1>2, <1>12, <2>3
  <2>5. UploadAt(jobs', u, ui'.busy, db["units"], db["types"])
    BY <1>9, <2>1, <2>3, <2>4, UploadAtOne
  <2> QED BY <2>1, <2>5
<1>13. \/ ui' = ui /\ jobs' = jobs
       \/ ui' = [ui EXCEPT !.upload = u] /\ jobs' = Reloaded({"units", "types"}, jobs)
       \/ /\ ui' = [ui EXCEPT !.busy = @ \cup {"upload"}, !.upload = u]
          /\ jobs' = jobs \cup {FirstRequest(u, acts + 1)} /\ u.at <= Len(rows)
  <2>1. \/ ui' = ui /\ jobs' = jobs
        \/ ui' = [ui EXCEPT !.upload = u] /\ jobs' = Reloaded({"units", "types"}, jobs)
        \/ /\ ui' = [ui EXCEPT !.busy = @ \cup {"upload"}, !.upload = u]
           /\ jobs' = jobs \cup {FirstRequest(u, acts + 1)} /\ ~(u.at > Len(rows))
    BY <1>3, <1>4, <1>5 DEF StartUpload
  <2>2. u.at \in Nat /\ Len(rows) \in Nat
    BY <1>7, <1>8
  <2>3. ~(u.at > Len(rows)) => u.at <= Len(rows)
    BY <2>2
  <2> QED BY <2>1, <2>3
<1> QED BY <1>10, <1>11, <1>12, <1>13

\* The route answers a step.
LEMMA UploadServedKeeps ==
  ASSUME ShapeInv, UploadInv, NEW j \in jobs, UploadServed(j)
  PROVE  UploadAt(jobs', ui'.upload, ui'.busy, db'["units"], db'["types"])
<1>1. /\ JobShape(j) /\ j.op \in UploadSteps /\ j.stage = "sent" /\ j.op \in Ops /\ page \in Pages /\ ui' = ui
      /\ DOMAIN db = Tables /\ {"units", "types"} \subseteq Tables
  BY DEF ShapeInv, UploadServed, Tables
<1>2. page = "workUnits"
  BY <1>1, OpsSplit
<1>3. /\ Counted(ui.upload, db["units"]) /\ "upload" \in ui.busy
      /\ StepFits(j, ui.upload, db["units"], db["types"])
      /\ \A k \in jobs : k.op \in UploadSteps => k = j
  BY <1>1, <1>2 DEF UploadInv, UploadAt
<1>4. Grows
  <2>1. Next
    BY DEF Next, Served
  <2> QED BY <2>1, GrowsStep
<1>5. ASSUME NEW code, NEW body, NEW rows, Answers(j, code, body, rows),
             j.op = "uploadUnit" /\ code \in {"ok", "conflict"} => j.arg \in rows["units"],
             j.op = "uploadType" /\ code = "conflict" => j.arg \in rows["types"],
             j.op = "uploadReread" => code = "ok" /\ j.arg \in body.types
      PROVE  UploadAt(jobs', ui'.upload, ui'.busy, db'["units"], db'["types"])
  <2>1. PICK m : /\ JobShape(m) /\ m.op = j.op /\ m.arg = j.arg /\ m.n = j.n /\ m.stage = "answered"
                 /\ jobs' = (jobs \ {j}) \cup {m}
                 /\ \/ m.code = code /\ m.body = body /\ db' = rows /\ calm' = calm
                    \/ m.code = "lost" /\ db' \in {db, rows} /\ ~calm'
    BY <1>1, <1>5, JobAnswered
  <2>2. Counted(ui.upload, db'["units"])
    BY <1>3, <1>4 DEF Counted, Grows
  <2>3. StepFits(m, ui.upload, db'["units"], db'["types"])
    <3>1. CASE m.code = code /\ m.body = body /\ db' = rows
      BY <1>3, <1>4, <1>5, <2>1, <3>1 DEF StepFits, Succeeded, Grows
    <3>2. CASE m.code = "lost"
      BY <1>3, <1>4, <2>1, <3>2 DEF StepFits, Succeeded, Grows
    <3> QED BY <2>1, <3>1, <3>2
  <2>4. \A k \in jobs' : k.op \in UploadSteps => k = m
    BY <1>3, <2>1
  <2>5. UploadAt(jobs', ui.upload, ui.busy, db'["units"], db'["types"])
    BY <1>3, <2>2, <2>3, <2>4, UploadAtOne
  <2> QED BY <1>1, <2>5
<1>6. CASE j.op = "uploadReread"
  <2>1. j.arg \in View("types").types
    BY <1>3, <1>6 DEF StepFits, View, TablesOf
  <2> QED BY <1>5, <1>6, <2>1 DEF UploadServed
<1>7. CASE j.op = "uploadType"
  <2>1. PICK rows : rows = [db EXCEPT !["types"] = @ \cup {j.arg}]
    OBVIOUS
  <2>2. \/ j.arg \in db["types"] /\ Answers(j, "conflict", <<>>, db)
        \/ Answers(j, "refused", <<>>, db)
        \/ Answers(j, "ok", <<>>, rows)
    BY <1>7, <2>1 DEF UploadServed
  <2> QED BY <1>5, <1>7, <2>2
<1>8. CASE j.op = "uploadUnit"
  <2>1. PICK rows : rows = [db EXCEPT !["units"] = @ \cup {j.arg}]
    OBVIOUS
  <2>2. \/ j.arg \in db["units"] /\ Answers(j, "conflict", <<>>, db)
        \/ Answers(j, "refused", <<>>, db)
        \/ Answers(j, "ok", <<>>, rows)
    BY <1>8, <2>1 DEF UploadServed
  <2>3. j.arg \in rows["units"]
    BY <1>1, <2>1
  <2> QED BY <1>5, <1>8, <2>2, <2>3
<1> QED BY <1>1, <1>6, <1>7, <1>8 DEF UploadSteps

\* The handler hears the answer.
LEMMA HearUploadKeeps ==
  ASSUME ShapeInv, UploadInv, NEW j \in jobs, HearUpload(j)
  PROVE  UploadAt(jobs', ui'.upload, ui'.busy, db["units"], db["types"])
<1> DEFINE Over(code) == Continue(Advanced(RowOver(ui.upload, code), ui.upload.at + 1), jobs \ {j}, j.n)
           SendUnit == /\ jobs' = (jobs \ {j}) \cup {Job("uploadUnit", Code(ui.upload), j.n)}
                       /\ ui' = [ui EXCEPT !.upload.cache = @ \cup {KeyOf(ui.upload.rows[ui.upload.at])}]
           Reread == /\ jobs' = Reloaded({"types"}, jobs \ {j})
                                  \cup {Job("uploadReread", KeyOf(ui.upload.rows[ui.upload.at]), j.n)}
                     /\ ui' = ui
<1>1. /\ j.op \in UploadSteps /\ j.stage = "answered" /\ j.op \in Ops /\ page \in Pages
  BY DEF ShapeInv, HearUpload
<1>2. page = "workUnits" /\ {"busy", "upload"} \subseteq DOMAIN ui
  BY <1>1, OpsSplit DEF ShapeInv
<1>3. PICK u : u = ui.upload
  OBVIOUS
<1>4. /\ Counted(u, db["units"]) /\ "upload" \in ui.busy
      /\ StepFits(j, u, db["units"], db["types"])
      /\ \A k \in jobs \ {j} : k.op \notin UploadSteps
  BY <1>1, <1>2, <1>3 DEF UploadInv, UploadAt
<1>5. u.at <= Len(u.rows) /\ Code(u) \notin u.known
  BY <1>4 DEF StepFits
<1>6. ASSUME NEW code, code \in {"ok", "conflict"} => Code(u) \in db["units"], Over(code)
      PROVE  UploadAt(jobs', ui'.upload, ui'.busy, db["units"], db["types"])
  <2>1. PICK v : v = Advanced(RowOver(u, code), u.at + 1)
    OBVIOUS
  <2>2. Counted(v, db["units"]) /\ (v.at <= Len(v.rows) => Code(v) \notin v.known)
    BY <1>4, <1>5, <1>6, <2>1, OverCounted
  <2>3. Continue(v, jobs \ {j}, j.n)
    BY <1>3, <1>6, <2>1
  <2> QED BY <1>2, <1>4, <2>2, <2>3, ContinueKeeps
<1>7. ASSUME SendUnit
      PROVE  UploadAt(jobs', ui'.upload, ui'.busy, db["units"], db["types"])
  <2>1. PICK m : m = Job("uploadUnit", Code(u), j.n)
    OBVIOUS
  <2>2. m.op = "uploadUnit" /\ m.stage = "sent" /\ m.arg = Code(u)
    BY <2>1, JobMade
  <2>3. PICK w : w = ui'.upload
    OBVIOUS
  <2>4. {"rows", "at", "known", "cache", "created", "existing", "failed"} \subseteq DOMAIN u
    BY <1>4 DEF Counted
  <2>5. PICK cache : w = [u EXCEPT !.cache = cache] /\ ui'.busy = ui.busy
    BY <1>2, <1>3, <1>7, <2>3
  <2>6. /\ DOMAIN w = DOMAIN u /\ w.rows = u.rows /\ w.at = u.at /\ w.known = u.known
        /\ w.created = u.created /\ w.existing = u.existing /\ w.failed = u.failed
    BY <2>4, <2>5
  <2>7. Code(w) = Code(u)
    BY <2>6 DEF Code
  <2>8. Counted(w, db["units"])
    BY <1>4, <2>6 DEF Counted
  <2>9. StepFits(m, w, db["units"], db["types"])
    BY <1>5, <2>2, <2>6, <2>7 DEF StepFits
  <2>10. \A k \in jobs' : k.op \in UploadSteps => k = m
    BY <1>3, <1>4, <1>7, <2>1
  <2>11. UploadAt(jobs', w, ui'.busy, db["units"], db["types"])
    BY <1>4, <2>5, <2>8, <2>9, <2>10, UploadAtOne
  <2> QED BY <2>3, <2>11
<1>8. ASSUME Reread, j.arg = KeyOf(u.rows[u.at]), j.arg \in db["types"]
      PROVE  UploadAt(jobs', ui'.upload, ui'.busy, db["units"], db["types"])
  <2>1. PICK m : m = Job("uploadReread", j.arg, j.n)
    OBVIOUS
  <2>2. m.op = "uploadReread" /\ m.stage = "sent" /\ m.arg = j.arg /\ m.code = "none"
    BY <2>1, JobMade
  <2>3. StepFits(m, u, db["units"], db["types"])
    BY <1>5, <1>8, <2>2 DEF StepFits, Succeeded
  <2>4. jobs' = Reloaded({"types"}, jobs \ {j}) \cup {m} /\ ui' = ui
    BY <1>3, <1>8, <2>1
  <2>5. "types" \notin UploadSteps
    BY DEF UploadSteps
  <2>6. \A k \in Reloaded({"types"}, jobs \ {j}) : k.op \notin UploadSteps
    BY <1>4, <2>5, Asked
  <2>7. \A k \in jobs' : k.op \in UploadSteps => k = m
    BY <2>4, <2>6
  <2>8. UploadAt(jobs', u, ui.busy, db["units"], db["types"])
    BY <1>4, <2>3, <2>7, UploadAtOne
  <2> QED BY <1>3, <2>4, <2>8
<1>9. CASE j.op = "uploadUnit"
  <2>1. Over(j.code)
    BY <1>9 DEF HearUpload
  <2>2. j.code \in {"ok", "conflict"} => Code(u) \in db["units"]
    BY <1>1, <1>4, <1>9 DEF StepFits
  <2> QED BY <1>6, <2>1, <2>2
<1>10. CASE j.op = "uploadType"
  <2>1. CASE j.code = "ok"
    <3>1. SendUnit
      BY <1>10, <2>1 DEF HearUpload
    <3> QED BY <1>7, <3>1
  <2>2. CASE j.code = "conflict"
    <3>1. Reread
      BY <1>10, <2>2 DEF HearUpload
    <3>2. j.arg = KeyOf(u.rows[u.at]) /\ j.arg \in db["types"]
      BY <1>1, <1>4, <1>10, <2>2 DEF StepFits
    <3> QED BY <1>8, <3>1, <3>2
  <2>3. CASE j.code \notin {"ok", "conflict"}
    <3>1. Over(j.code)
      BY <1>10, <2>3 DEF HearUpload
    <3> QED BY <1>6, <2>3, <3>1
  <2> QED BY <2>1, <2>2, <2>3
<1>11. CASE j.op = "uploadReread"
  <2>1. j.arg = KeyOf(u.rows[u.at]) /\ j.code # "conflict" /\ (Succeeded(j) => j.arg \in j.body.types)
    BY <1>4, <1>11 DEF StepFits
  <2>2. CASE j.code = "ok"
    <3>1. KeyOf(ui.upload.rows[ui.upload.at]) \in j.body.types
      BY <1>1, <1>3, <2>1, <2>2 DEF Succeeded
    <3>2. SendUnit
      BY <1>11, <2>2, <3>1 DEF HearUpload
    <3> QED BY <1>7, <3>2
  <2>3. CASE j.code # "ok"
    <3>1. Over(j.code)
      BY <1>11, <2>3 DEF HearUpload
    <3> QED BY <1>6, <2>1, <2>3, <3>1
  <2> QED BY <2>2, <2>3
<1> QED BY <1>1, <1>9, <1>10, <1>11 DEF UploadSteps

LEMMA UploadStep == ShapeInv /\ UploadInv /\ [Next]_vars => UploadInv'
<1> SUFFICES ASSUME ShapeInv, UploadInv, [Next]_vars
             PROVE  UploadInv'
  OBVIOUS
<1>0. page' = page
  BY NextSplit DEF QuietEffect, StartEffect, ServedEffect, ReadEffect, HeardEffect, ElsewhereEffect, Going
<1> SUFFICES ASSUME page = "workUnits"
             PROVE  UnitsSeen' /\ UploadAt(jobs', ui'.upload, ui'.busy, db'["units"], db'["types"])
  BY <1>0 DEF UploadInv
<1>1. UnitsSeen' /\ Grows
  BY UnitsSeenStep, GrowsStep DEF UploadInv
<1>2. {"busy", "tab", "upload"} \subseteq DOMAIN ui /\ UploadAt(jobs, ui.upload, ui.busy, db["units"], db["types"])
  BY DEF ShapeInv, UploadInv
<1>3. ASSUME \A j \in jobs' : j.op \in UploadSteps => j \in jobs,
             ui'.upload = ui.upload, "upload" \in ui.busy => "upload" \in ui'.busy
      PROVE  UploadAt(jobs', ui'.upload, ui'.busy, db'["units"], db'["types"])
  BY <1>1, <1>2, <1>3, UploadAtKept DEF Grows
<1>4. ASSUME NEW js, NEW hs, js = jobs, hs \subseteq HooksOf[page]
      PROVE  \A j \in Reloaded(hs, js) : j.op \in UploadSteps => j \in jobs
  <2>1. hs \cap UploadSteps = {}
    BY <1>4, PagesNamed, NamesApart DEF Hooks, ShapeInv
  <2> QED BY <1>4, <2>1, Asked
<1>5. ASSUME NEW f \in Forms, Submit(f)
      PROVE  UploadAt(jobs', ui'.upload, ui'.busy, db'["units"], db'["types"])
  <2>1. PICK arg : jobs' = jobs \cup {Job(f, arg, acts + 1)}
    BY <1>5 DEF Submit, Starts
  <2>2. Job(f, arg, acts + 1).op \notin UploadSteps
    BY JobMade, NamesApart
  <2>3. ui'.upload = ui.upload /\ ui.busy \subseteq ui'.busy
    BY <1>2, <1>5 DEF Submit
  <2> QED BY <1>3, <2>1, <2>2, <2>3
<1>6. CASE StartBulk
  <2>1. jobs' = jobs \cup {Job("bulk", 1, acts + 1)}
    BY <1>6 DEF StartBulk, Starts
  <2>2. Job("bulk", 1, acts + 1).op \notin UploadSteps
    BY JobMade, NamesApart
  <2>3. ui' = [ui EXCEPT !.busy = @ \cup {"bulk"}]
    BY <1>6 DEF StartBulk
  <2>4. ui'.upload = ui.upload /\ ui.busy \subseteq ui'.busy
    BY <1>2, <2>3
  <2> QED BY <1>1, <1>3, <2>1, <2>2, <2>4
<1>7. ASSUME NEW file \in Workbooks, StartUpload(file)
      PROVE  UploadAt(jobs', ui'.upload, ui'.busy, db'["units"], db'["types"])
  <2>1. db' = db
    BY <1>7 DEF StartUpload
  <2> QED BY <1>7, <2>1, StartUploadKeeps
<1>8. CASE Look \/ UNCHANGED vars
  <2>0. QuietEffect
    BY <1>8, QuietStep DEF Look
  <2>1. jobs' = jobs /\ ui'.upload = ui.upload /\ ui'.busy = ui.busy
    BY <2>0 DEF QuietEffect
  <2> QED BY <1>1, <1>3, <2>1
<1>9. ASSUME NEW j \in jobs, ReadAnswered(j) \/ FormServed(j) \/ BulkServed(j)
      PROVE  UploadAt(jobs', ui'.upload, ui'.busy, db'["units"], db'["types"])
  <2>1. j.op \notin UploadSteps
    BY <1>9, NamesApart DEF ReadAnswered, FormServed, BulkServed
  <2>2. PICK m : ServedEffect(j, m)
    BY <1>9, ReadServedStep, FormServedStep, BulkServedStep
  <2>3. \A k \in jobs' : k.op \in UploadSteps => k \in jobs
    BY <2>1, <2>2 DEF ServedEffect
  <2> QED BY <1>3, <2>2, <2>3 DEF ServedEffect
<1>10. ASSUME NEW j \in jobs, UploadServed(j)
       PROVE  UploadAt(jobs', ui'.upload, ui'.busy, db'["units"], db'["types"])
  BY <1>10, UploadServedKeeps
<1>11. ASSUME NEW j \in jobs, HearRead(j), Rendered(j)
       PROVE  UploadAt(jobs', ui'.upload, ui'.busy, db'["units"], db'["types"])
  <2>1. jobs' \subseteq jobs
    BY <1>11 DEF HearRead
  <2>2. ui'.upload = ui.upload /\ ui'.busy = ui.busy
    BY <1>2, <1>11 DEF Rendered, Regrouped
  <2> QED BY <1>3, <2>1, <2>2
<1>12. ASSUME NEW j \in jobs, HearForm(j)
       PROVE  UploadAt(jobs', ui'.upload, ui'.busy, db'["units"], db'["types"])
  <2>1. ui'.upload = ui.upload /\ ui'.busy = ui.busy \ {j.op} /\ j.op \in Forms
    BY <1>2, <1>12 DEF HearForm, Released
  <2>2. j.op # "upload"
    BY <2>1, NamesApart
  <2>3. PICK hs, new : HeardEffect(j, hs, new)
    BY <1>12, FormHeardStep
  <2>4. jobs' \subseteq Reloaded(FormOf[j.op].reloads, jobs) \cup jobs
    BY <1>12 DEF HearForm, Reloaded
  <2>5. FormOf[j.op].reloads \subseteq HooksOf[page]
    <3>1. j.op \in Ops /\ page \in Pages
      BY DEF ShapeInv
    <3> QED BY <2>1, <3>1, OpsSplit, FormsSend
  <2>6. \A k \in jobs' : k.op \in UploadSteps => k \in jobs
    BY <1>4, <2>4, <2>5
  <2> QED BY <1>3, <2>1, <2>2, <2>6
<1>13. ASSUME NEW j \in jobs, HearBulk(j)
       PROVE  UploadAt(jobs', ui'.upload, ui'.busy, db'["units"], db'["types"])
  <2>1. ui'.upload = ui.upload /\ ui.busy \ {"bulk"} \subseteq ui'.busy
    BY <1>2, <1>13 DEF HearBulk
  <2>2. \/ jobs' \subseteq Reloaded({"units", "runs"}, jobs) \cup jobs
        \/ jobs' \subseteq jobs \cup {Job("bulk", j.arg + 1, j.n)}
    BY <1>13 DEF HearBulk, Reloaded
  <2>3. Job("bulk", j.arg + 1, j.n).op \notin UploadSteps
    BY JobMade, NamesApart
  <2>4. {"units", "runs"} \subseteq HooksOf[page]
    BY DEF HooksOf, WorkUnitsHooks
  <2>5. \A k \in jobs' : k.op \in UploadSteps => k \in jobs
    BY <1>4, <2>2, <2>3, <2>4
  <2> QED BY <1>3, <2>1, <2>5
<1>14. ASSUME NEW j \in jobs, HearUpload(j)
       PROVE  UploadAt(jobs', ui'.upload, ui'.busy, db'["units"], db'["types"])
  <2>1. db' = db
    BY <1>14 DEF HearUpload
  <2> QED BY <1>14, <2>1, HearUploadKeeps
<1>15. CASE Elsewhere
  <2>1. jobs' = jobs /\ ui' = ui
    BY <1>15 DEF Elsewhere
  <2> QED BY <1>1, <1>3, <2>1
<1>16. UploadAt(jobs', ui'.upload, ui'.busy, db'["units"], db'["types"])
  BY <1>5, <1>6, <1>7, <1>8, <1>9, <1>10, <1>11, <1>12, <1>13, <1>14, <1>15 DEF Next, Click, Served, Heard
<1> QED BY <1>1, <1>16

LEMMA InitUpload == Init => UploadInv
<1> SUFFICES ASSUME Init, page = "workUnits"
             PROVE  UnitsSeen /\ UploadAt(jobs, ui.upload, ui.busy, db["units"], db["types"])
  BY DEF UploadInv
<1>1. PICK state, rows, first :
        /\ MountedWith(state, rows, first)
        /\ first \subseteq HooksOf[page]
        /\ \E open \in OpenGroups : state = WorkUnitsUi(open)
  BY InitMounted
<1>2. \A j \in jobs : j.op \notin UploadSteps /\ j.stage # "answered"
  <2>1. \A h \in first : h \in Hooks
    BY <1>1, PagesNamed DEF Hooks
  <2> QED BY <1>1, <2>1, LoadMade, NamesApart DEF MountedWith
<1>3. UnitsSeen
  <2>1. "units" \in HooksOf[page] /\ TablesOf("units") = {"units"}
    BY DEF HooksOf, WorkUnitsHooks, TablesOf
  <2>2. shown["units"].units \in {NoRows["units"], rows["units"]} /\ db = rows
    BY <1>1, <2>1 DEF MountedWith
  <2>3. NoRows["units"] = {}
    BY DEF NoRows, Tables
  <2> QED BY <1>2, <2>2, <2>3 DEF UnitsSeen, Succeeded
<1>4. ui.upload = NoUpload
  BY <1>1 DEF MountedWith, WorkUnitsUi
<1>5. Counted(NoUpload, db["units"])
  <2>1. PICK none : none = <<>>
    OBVIOUS
  <2>2. /\ none \in Seq(Rows) /\ none \in Seq(Codes \cup {Nothing}) /\ Len(none) = 0
        /\ DOMAIN none = {} /\ ToSet(none) = {}
    BY <2>1 DEF ToSet
  <2>3. /\ NoUpload.rows = none /\ NoUpload.at = 1 /\ NoUpload.known = {} /\ NoUpload.created = none
        /\ NoUpload.existing = none /\ NoUpload.failed = none
        /\ {"rows", "at", "known", "cache", "created", "existing", "failed"} \subseteq DOMAIN NoUpload
    BY <2>1 DEF NoUpload
  <2> QED BY <2>1, <2>2, <2>3 DEF Counted
<1> QED BY <1>2, <1>3, <1>4, <1>5 DEF UploadAt

-----------------------------------------------------------------------------
(* Recursion and induction over the numbers up to n.                       *)

LEMMA UpTo ==
  ASSUME NEW n \in Nat, NEW S, 0 \in S, \A k \in 1..n : k - 1 \in S => k \in S
  PROVE  0..n \subseteq S
<1> SUFFICES ASSUME ~ (0..n \subseteq S)
             PROVE  FALSE
  OBVIOUS
<1>1. PICK Bad : Bad = 0..n \ S
  OBVIOUS
<1>2. Bad \subseteq 0..n /\ Bad # {}
  BY <1>1
<1>3. PICK i \in Bad : i \in 0..n /\ (i # 0 => i - 1 \in 0..n /\ i - 1 \notin Bad)
  BY <1>2, FirstOf
<1>4. i # 0
  BY <1>1
<1>5. i \in 1..n /\ i - 1 \in S
  BY <1>1, <1>3, <1>4
<1> QED BY <1>1, <1>3, <1>5

RunOf(g, n, X, start, step) ==
  /\ g \in [0..n -> X]
  /\ g[0] = start
  /\ \A k \in 1..n : g[k] = step[k][g[k - 1]]

\* A function on the numbers up to n is there once its start and its steps are.
LEMMA StepsDefine ==
  ASSUME NEW n \in Nat, NEW X, NEW start \in X, NEW step, step \in [1..n -> [X -> X]]
  PROVE  \E g : RunOf(g, n, X, start, step)
<1> DEFINE Runs(g, m) == RunOf(g, m, X, start, step)
<1> USE DEF RunOf
<1>1. PICK S : S = {m \in 0..n : \E g : Runs(g, m)}
  OBVIOUS
<1>2. 0 \in S
  <2>1. PICK g : g = [k \in 0..0 |-> start]
    OBVIOUS
  <2>2. Runs(g, 0)
    BY <2>1
  <2> QED BY <1>1, <2>2
<1>3. ASSUME NEW m \in 1..n, m - 1 \in S
      PROVE  m \in S
  <2>1. PICK g : Runs(g, m - 1)
    BY <1>1, <1>3
  <2>2. PICK x \in X : x = step[m][g[m - 1]]
    BY <2>1
  <2>3. PICK h : h = [k \in 0..m |-> IF k = m THEN x ELSE g[k]]
    OBVIOUS
  <2>4. h \in [0..m -> X]
    BY <2>1, <2>2, <2>3
  <2>5. h[0] = start
    BY <2>1, <2>3
  <2>6. ASSUME NEW k \in 1..m
        PROVE  h[k] = step[k][h[k - 1]]
    <3>1. h[k - 1] = g[k - 1]
      BY <2>3
    <3>2. CASE k = m
      <4>1. h[k] = x
        BY <2>3, <3>2
      <4> QED BY <2>2, <3>1, <3>2, <4>1
    <3>3. CASE k # m
      BY <2>1, <2>3, <3>1, <3>3
    <3> QED BY <3>2, <3>3
  <2>7. Runs(h, m)
    BY <2>4, <2>5, <2>6
  <2> QED BY <1>1, <2>7
<1>4. 0..n \subseteq S
  BY <1>2, <1>3, UpTo
<1>5. PICK g : Runs(g, n)
  BY <1>1, <1>4
<1> QED BY <1>5

-----------------------------------------------------------------------------
(* Those of a sequence that are in a set, each once.                       *)

OneEach(s) == \A i, k \in 1..Len(s) : s[i] = s[k] => i = k

LEMMA OneEachAppend ==
  ASSUME NEW S, NEW s \in Seq(S), NEW e \in S \ ToSet(s), OneEach(s)
  PROVE  OneEach(Append(s, e))
<1>1. /\ Len(Append(s, e)) = Len(s) + 1 /\ Len(s) \in Nat
      /\ \A i \in 1..Len(s) : Append(s, e)[i] = s[i] /\ s[i] # e
      /\ Append(s, e)[Len(s) + 1] = e
  BY DEF ToSet
<1> QED BY <1>1 DEF OneEach

LEMMA OnceFacts ==
  ASSUME NEW T, NEW s \in Seq(T), NEW S
  PROVE  Once(s, S) \in Seq(T \cap S) /\ ToSet(Once(s, S)) = ToSet(s) \cap S /\ OneEach(Once(s, S))
<1> DEFINE Next1(q, k) == IF s[k] \in S \ ToSet(q) THEN Append(q, s[k]) ELSE q
           Firsts(g) == g = [k \in 0..Len(s) |-> IF k = 0 THEN <<>> ELSE Next1(g[k - 1], k)]
<1>n. PICK n \in Nat : n = Len(s)
  OBVIOUS
<1>X. PICK X : X = Seq(T)
  OBVIOUS
<1>0. \A k \in 1..n : s[k] \in T
  BY <1>n
<1>x. <<>> \in X /\ \A q \in X, k \in 1..n : Next1(q, k) \in X
  BY <1>0, <1>X
<1>d. Once(s, S) = (CHOOSE x : Firsts(x))[n]
  BY <1>n DEF Once
<1>f. ASSUME NEW x, Firsts(x)
      PROVE  x[0] = <<>> /\ \A k \in 1..n : x[k] = Next1(x[k - 1], k)
  <2> HIDE DEF Next1
  <2>1. \A k \in 0..n : x[k] = IF k = 0 THEN <<>> ELSE Next1(x[k - 1], k)
    BY <1>f, <1>n
  <2> QED BY <1>0, <2>1
<1> HIDE DEF Next1
<1>1. \E g : Firsts(g)
  <2>1. PICK step : step = [k \in 1..n |-> [q \in X |-> Next1(q, k)]]
    OBVIOUS
  <2>2. step \in [1..n -> [X -> X]]
    BY <1>x, <2>1
  <2>3. PICK start \in X : start = <<>>
    BY <1>x
  <2>4. PICK g : RunOf(g, n, X, start, step)
    BY <2>2, StepsDefine
  <2>5. ASSUME NEW k \in 1..n
        PROVE  g[k] = Next1(g[k - 1], k)
    <3>1. g[k - 1] \in X /\ g[k] = step[k][g[k - 1]]
      BY <2>4 DEF RunOf
    <3> QED BY <2>1, <3>1
  <2>6. \A k \in 0..n : g[k] = IF k = 0 THEN <<>> ELSE Next1(g[k - 1], k)
    BY <2>3, <2>4, <2>5 DEF RunOf
  <2>7. Firsts(g)
    BY <1>n, <2>4, <2>6 DEF RunOf
  <2> QED BY <2>7
<1> HIDE DEF Firsts
<1>2. PICK g : Firsts(g) /\ Once(s, S) = g[n]
  BY <1>1, <1>d
<1>3. g[0] = <<>> /\ \A k \in 1..n : g[k] = Next1(g[k - 1], k)
  BY <1>2, <1>f
\* What holds of the first k of s.
<1> DEFINE Good(k) == /\ g[k] \in Seq(T \cap S) /\ OneEach(g[k])
                      /\ ToSet(g[k]) = {s[i] : i \in 1..k} \cap S
<1>4. Good(0)
  <2>1. ToSet(<<>>) = {} /\ OneEach(<<>>) /\ <<>> \in Seq(T \cap S)
    BY DEF ToSet, OneEach
  <2>2. {s[i] : i \in 1..0} = {}
    OBVIOUS
  <2> QED BY <1>3, <2>1, <2>2
<1>5. ASSUME NEW k \in 1..n, Good(k - 1)
      PROVE  Good(k)
  <2>1. PICK q \in Seq(T \cap S) : q = g[k - 1]
    BY <1>5
  <2>2. OneEach(q) /\ ToSet(q) = {s[i] : i \in 1..(k - 1)} \cap S
    BY <1>5, <2>1
  <2>3. {s[i] : i \in 1..k} = {s[i] : i \in 1..(k - 1)} \cup {s[k]}
    BY <1>0
  <2>4. g[k] = IF s[k] \in S \ ToSet(q) THEN Append(q, s[k]) ELSE q
    BY <1>3, <2>1 DEF Next1
  <2>5. CASE s[k] \in S \ ToSet(q)
    <3>1. s[k] \in (T \cap S) \ ToSet(q)
      BY <1>0, <2>5
    <3>2. g[k] = Append(q, s[k])
      BY <2>4, <2>5
    <3>3. g[k] \in Seq(T \cap S) /\ ToSet(g[k]) = ToSet(q) \cup {s[k]}
      BY <3>1, <3>2, AppendKept
    <3>4. OneEach(g[k])
      BY <2>2, <3>1, <3>2, OneEachAppend
    <3> QED BY <2>2, <2>3, <2>5, <3>3, <3>4
  <2>6. CASE s[k] \notin S \ ToSet(q)
    BY <2>1, <2>2, <2>3, <2>4, <2>6
  <2> QED BY <2>5, <2>6
<1> HIDE DEF Good
<1>6. Good(n)
  <2>1. PICK K : K = {k \in 0..n : Good(k)}
    OBVIOUS
  <2>2. 0 \in K /\ \A k \in 1..n : k - 1 \in K => k \in K
    BY <1>0, <1>4, <1>5, <2>1
  <2>3. 0..n \subseteq K
    BY <2>2, UpTo
  <2>4. n \in K
    BY <2>3
  <2> QED BY <2>1, <2>4
<1>7. {s[i] : i \in 1..n} = ToSet(s)
  BY <1>n DEF ToSet
<1> QED BY <1>2, <1>6, <1>7 DEF Good

-----------------------------------------------------------------------------
(* Parts of a finite set add up to it.                                     *)

LEMMA TotalSums ==
  ASSUME NEW counts \in Seq(Nat)
  PROVE  \E g : g[0] = 0 /\ (\A k \in 1..Len(counts) : g[k] = g[k - 1] + counts[k]) /\ Total(counts) = g[Len(counts)]
<1> DEFINE More(q, k) == q + counts[k]
           Sums(g) == g = [k \in 0..Len(counts) |-> IF k = 0 THEN 0 ELSE More(g[k - 1], k)]
<1>1. PICK m \in Nat : m = Len(counts)
  OBVIOUS
<1>2. \A k \in 1..m, q \in Nat : More(q, k) \in Nat
  BY <1>1
<1>3. Total(counts) = (CHOOSE g : Sums(g))[m]
  BY <1>1 DEF Total
<1> HIDE DEF More
<1>4. \E g : Sums(g)
  <2>1. PICK step : step = [k \in 1..m |-> [q \in Nat |-> More(q, k)]]
    OBVIOUS
  <2>2. step \in [1..m -> [Nat -> Nat]]
    BY <1>2, <2>1
  <2>3. PICK start \in Nat : start = 0
    OBVIOUS
  <2>4. PICK g : RunOf(g, m, Nat, start, step)
    BY <2>2, StepsDefine
  <2>5. ASSUME NEW k \in 1..m
        PROVE  g[k] = More(g[k - 1], k)
    <3>1. g[k - 1] \in Nat /\ g[k] = step[k][g[k - 1]]
      BY <2>4 DEF RunOf
    <3> QED BY <2>1, <3>1
  <2>6. \A k \in 0..m : g[k] = IF k = 0 THEN 0 ELSE More(g[k - 1], k)
    BY <2>3, <2>4, <2>5 DEF RunOf
  <2>7. Sums(g)
    BY <1>1, <2>4, <2>6 DEF RunOf
  <2> QED BY <2>7
<1>5. PICK g : Sums(g) /\ Total(counts) = g[m]
  BY <1>3, <1>4
<1>6. g[0] = 0 /\ \A k \in 1..m : g[k] = g[k - 1] + counts[k]
  <2>1. \A k \in 0..m : g[k] = IF k = 0 THEN 0 ELSE More(g[k - 1], k)
    BY <1>1, <1>5
  <2>2. g[0] = 0 /\ \A k \in 1..m : g[k] = More(g[k - 1], k)
    BY <2>1
  <2> QED BY <2>2 DEF More
<1> QED BY <1>1, <1>5, <1>6

Part(U, part, k) == {c \in U : part[c] = k}
Parts(U, part, k) == {c \in U : part[c] <= k}

LEMMA PartsGrow ==
  ASSUME NEW U, IsFiniteSet(U), NEW m \in Nat, NEW part \in [U -> 1..m], NEW k \in 1..m
  PROVE  Cardinality(Parts(U, part, k)) = Cardinality(Parts(U, part, k - 1)) + Cardinality(Part(U, part, k))
<1>1. PICK below, here : below = Parts(U, part, k - 1) /\ here = Part(U, part, k)
  OBVIOUS
<1>2. Parts(U, part, k) = below \cup here /\ below \cap here = {} /\ below \in SUBSET U /\ here \in SUBSET U
  BY <1>1 DEF Parts, Part
<1>3. IsFiniteSet(below) /\ IsFiniteSet(here)
  BY <1>2, FS_Subset
<1>4. Cardinality(below) \in Nat /\ Cardinality(here) \in Nat
  BY <1>3, FS_CardinalityType
<1>5. Cardinality(below \cap here) = 0
  BY <1>2, FS_EmptySet
<1>6. Cardinality(below \cup here) = Cardinality(below) + Cardinality(here) - Cardinality(below \cap here)
  BY <1>3, FS_Union
<1>7. Cardinality(below \cup here) = Cardinality(below) + Cardinality(here)
  BY <1>4, <1>5, <1>6
<1> QED BY <1>1, <1>2, <1>7

LEMMA TotalOfParts ==
  ASSUME NEW U, IsFiniteSet(U), NEW counts \in Seq(Nat), NEW part \in [U -> 1..Len(counts)],
         \A k \in 1..Len(counts) : counts[k] = Cardinality(Part(U, part, k))
  PROVE  Total(counts) = Cardinality(U)
<1>1. PICK m \in Nat : m = Len(counts)
  OBVIOUS
<1>2. PICK g : g[0] = 0 /\ (\A k \in 1..m : g[k] = g[k - 1] + counts[k]) /\ Total(counts) = g[m]
  BY <1>1, TotalSums
<1>3. PICK K : K = {k \in 0..m : g[k] = Cardinality(Parts(U, part, k))}
  OBVIOUS
<1>4. 0 \in K
  <2>1. Parts(U, part, 0) = {}
    BY DEF Parts
  <2>2. Cardinality(Parts(U, part, 0)) = 0
    BY <2>1, FS_EmptySet
  <2> QED BY <1>2, <1>3, <2>2
<1>5. ASSUME NEW k \in 1..m, k - 1 \in K
      PROVE  k \in K
  <2>1. g[k - 1] = Cardinality(Parts(U, part, k - 1)) /\ counts[k] = Cardinality(Part(U, part, k))
    BY <1>1, <1>3, <1>5
  <2>2. Cardinality(Parts(U, part, k)) = Cardinality(Parts(U, part, k - 1)) + Cardinality(Part(U, part, k))
    BY <1>1, PartsGrow
  <2> QED BY <1>2, <1>3, <2>1, <2>2
<1>6. 0..m \subseteq K
  BY <1>4, <1>5, UpTo
<1>7. Parts(U, part, m) = U
  BY <1>1 DEF Parts
<1>8. g[m] = Cardinality(Parts(U, part, m))
  BY <1>3, <1>6
<1> QED BY <1>2, <1>7, <1>8

\* In one column, the row of a node is the number of those placed before it.
LEMMA RowsApart ==
  ASSUME NEW U, IsFiniteSet(U), NEW rank, NEW place \in [U -> Nat],
         \A c, d \in U : place[c] = place[d] => c = d,
         NEW c \in U, NEW d \in U, rank[c] = rank[d],
         Cardinality({x \in U : rank[x] = rank[c] /\ place[x] < place[c]})
           = Cardinality({x \in U : rank[x] = rank[d] /\ place[x] < place[d]})
  PROVE  c = d
<1> DEFINE Before(y) == {x \in U : rank[x] = rank[y] /\ place[x] < place[y]}
<1>1. ASSUME NEW x \in U, NEW y \in U, rank[x] = rank[y], place[x] < place[y]
      PROVE  Cardinality(Before(x)) # Cardinality(Before(y))
  <2>1. PICK big : big = Before(y)
    OBVIOUS
  <2>2. PICK small : small = Before(x)
    OBVIOUS
  <2>3. big \in SUBSET U /\ x \in big /\ x \notin small
    BY <1>1, <2>1, <2>2
  <2>4. small \in SUBSET big
    BY <1>1, <2>1, <2>2
  <2>5. IsFiniteSet(big)
    BY <2>3, FS_Subset
  <2>6. Cardinality(big) = Cardinality(small) => big = small
    BY <2>4, <2>5, FS_Subset
  <2> QED BY <2>1, <2>2, <2>3, <2>6
<1>2. ~ (place[c] < place[d]) /\ ~ (place[d] < place[c])
  BY <1>1
<1> QED BY <1>2

-----------------------------------------------------------------------------
(* The drawing.                                                            *)

\* What there is to draw: units, and edges from one of them to another.
Drawn(g) ==
  /\ g.units \in SUBSET Codes /\ g.units # {}
  /\ g.workEdges \in Seq(g.units \X g.units)
  /\ \A e \in ToSet(g.workEdges) : e[1] # e[2]

LEMMA CodesFinite == IsFiniteSet(Codes)
<1>1. PICK n \in Nat : n = Len(NodeOrder)
  BY NodeAssumption
<1>2. NodeOrder \in [1..n -> Codes]
  BY <1>1, NodeAssumption
<1>3. ASSUME NEW c \in Codes
      PROVE  \E k \in 1..n : NodeOrder[k] = c
  BY <1>1, <1>2, NodeAssumption DEF ToSet
<1>4. NodeOrder \in Surjection(1..n, Codes)
  BY <1>2, <1>3 DEF Surjection
<1>5. IsFiniteSet(1..n)
  BY FS_Interval
<1> QED BY <1>4, <1>5, FS_Surjection

LEMMA UnitsFinite ==
  ASSUME NEW g, Drawn(g)
  PROVE  IsFiniteSet(g.units)
BY CodesFinite, FS_Subset DEF Drawn

LEMMA NodesFacts ==
  ASSUME NEW S \in SUBSET Codes
  PROVE  Once(NodeOrder, S) \in Seq(S) /\ ToSet(Once(NodeOrder, S)) = S /\ OneEach(Once(NodeOrder, S))
<1>1. Codes \cap S = S
  OBVIOUS
<1> QED BY <1>1, NodeAssumption, OnceFacts

LEMMA PlaceFacts ==
  ASSUME NEW T, NEW s \in Seq(T), NEW x \in ToSet(s)
  PROVE  Place(s, x) \in 1..Len(s) /\ s[Place(s, x)] = x
<1>1. \E k \in 1..Len(s) : s[k] = x
  BY DEF ToSet
<1> QED BY <1>1 DEF Place

\* No two nodes are drawn at one place, whatever the columns are.
LEMMA PlacesApart ==
  ASSUME NEW g, Drawn(g), NEW c \in g.units, NEW d \in g.units, Layout(g)[c] = Layout(g)[d]
  PROVE  c = d
<1>1. PICK rank : rank = Rank(g)
  OBVIOUS
<1>2. PICK nodes : nodes = NodesOf(g)
  OBVIOUS
<1>3. nodes \in Seq(g.units) /\ ToSet(nodes) = g.units
  BY <1>2, NodesFacts DEF NodesOf, Drawn
<1>4. PICK place : place = [n \in g.units |-> Place(nodes, n)]
  OBVIOUS
<1>5. ASSUME NEW n \in g.units
      PROVE  place[n] \in Nat /\ nodes[place[n]] = n
  <2>1. Place(nodes, n) \in 1..Len(nodes) /\ nodes[Place(nodes, n)] = n
    BY <1>3, PlaceFacts
  <2> QED BY <1>3, <1>4, <2>1
<1>6. place \in [g.units -> Nat] /\ \A x, y \in g.units : place[x] = place[y] => x = y
  BY <1>4, <1>5
<1>7. ASSUME NEW n \in g.units
      PROVE  Layout(g)[n] = <<rank[n], Cardinality({m \in g.units : rank[m] = rank[n] /\ place[m] < place[n]})>>
  BY <1>1, <1>2, <1>4, <1>7 DEF Layout
<1>8. /\ rank[c] = rank[d]
      /\ Cardinality({m \in g.units : rank[m] = rank[c] /\ place[m] < place[c]})
           = Cardinality({m \in g.units : rank[m] = rank[d] /\ place[m] < place[d]})
  BY <1>7
<1> QED BY <1>6, <1>8, UnitsFinite, RowsApart

LEMMA LeastOfTwo ==
  ASSUME NEW a \in Nat, NEW b \in Nat
  PROVE  Min({a, b}) = IF a <= b THEN a ELSE b
<1>1. {a, b} \subseteq Nat /\ {a, b} # {}
  OBVIOUS
<1>2. Min({a, b}) \in {a, b} /\ \A y \in {a, b} : Min({a, b}) <= y
  BY <1>1, MinIsLeast
<1> QED BY <1>2

LEMMA LegendCounts ==
  ASSUME NEW g, Drawn(g)
  PROVE  Total(Legend(g)) = Cardinality(g.units)
<1>1. PICK nodes : nodes = NodesOf(g)
  OBVIOUS
<1>2. nodes \in Seq(g.units) /\ ToSet(nodes) = g.units
  BY <1>1, NodesFacts DEF NodesOf, Drawn
<1>3. PICK owners : owners = [k \in 1..Len(nodes) |-> FunctionOf[nodes[k]]]
  OBVIOUS
<1>4. owners \in Seq(Functions) /\ Len(owners) = Len(nodes)
  <2>1. \A k \in 1..Len(nodes) : nodes[k] \in Codes
    BY <1>2 DEF Drawn
  <2>2. \A k \in 1..Len(nodes) : FunctionOf[nodes[k]] \in Functions
    BY <2>1, FunctionAssumption
  <2> QED BY <1>2, <1>3, <2>2
<1>5. PICK order : order = GroupOrder(g)
  OBVIOUS
<1>6. order \in Seq(Functions) /\ ToSet(order) = ToSet(owners)
  <2>1. order = Once(owners, Functions)
    BY <1>1, <1>3, <1>5 DEF GroupOrder
  <2>2. ToSet(owners) \subseteq Functions
    BY <1>4 DEF ToSet
  <2>3. Functions \cap Functions = Functions
    OBVIOUS
  <2> QED BY <1>4, <2>1, <2>2, <2>3, OnceFacts
<1>7. ASSUME NEW c \in g.units
      PROVE  FunctionOf[c] \in ToSet(order)
  <2>1. PICK k \in 1..Len(nodes) : nodes[k] = c
    BY <1>2 DEF ToSet
  <2>2. owners[k] = FunctionOf[c] /\ k \in DOMAIN owners
    BY <1>3, <2>1
  <2> QED BY <1>6, <2>2 DEF ToSet
<1>8. PICK m \in Nat : m = Min({Len(order), Colours + 1})
  BY <1>6, LeastOfTwo, NodeAssumption
<1>9. m = IF Len(order) <= Colours + 1 THEN Len(order) ELSE Colours + 1
  BY <1>6, <1>8, LeastOfTwo, NodeAssumption
<1>10. PICK part : part = [c \in g.units |-> GroupColour(g)[FunctionOf[c]]]
  OBVIOUS
<1>11. ASSUME NEW c \in g.units
       PROVE  part[c] \in 1..m
  <2>1. PICK p \in 1..Len(order) : p = Place(order, FunctionOf[c])
    BY <1>6, <1>7, PlaceFacts
  <2>2. part[c] = Min({p, Colours + 1})
    BY <1>5, <1>7, <1>10, <2>1 DEF GroupColour
  <2>3. part[c] = IF p <= Colours + 1 THEN p ELSE Colours + 1
    BY <1>6, <2>1, <2>2, LeastOfTwo, NodeAssumption
  <2> QED BY <1>6, <1>9, <2>1, <2>3, NodeAssumption
<1>12. part \in [g.units -> 1..m]
  BY <1>10, <1>11
<1>13. PICK counts : counts = Legend(g)
  OBVIOUS
<1>14. counts = [chip \in 1..m |-> Cardinality(Part(g.units, part, chip))]
  <2>1. \A chip : {c \in g.units : GroupColour(g)[FunctionOf[c]] = chip} = Part(g.units, part, chip)
    BY <1>10 DEF Part
  <2> QED BY <1>5, <1>8, <1>13, <2>1 DEF Legend
<1>15. \A chip : Cardinality(Part(g.units, part, chip)) \in Nat
  <2>1. \A chip : Part(g.units, part, chip) \in SUBSET g.units
    BY DEF Part
  <2> QED BY <2>1, UnitsFinite, FS_Subset, FS_CardinalityType
<1>16. counts \in Seq(Nat) /\ Len(counts) = m
  BY <1>14, <1>15
<1> QED BY <1>12, <1>13, <1>14, <1>16, UnitsFinite, TotalOfParts

-----------------------------------------------------------------------------
(* The queue.                                                              *)

LEMMA Members ==
  ASSUME NEW S, NEW s \in Seq(S)
  PROVE  \A x : x \in ToSet(s) <=> \E i \in 1..Len(s) : s[i] = x
BY DEF ToSet

LEMMA TailFacts ==
  ASSUME NEW S, NEW s \in Seq(S), s # <<>>
  PROVE  /\ Head(s) \in S /\ Tail(s) \in Seq(S)
         /\ ToSet(s) = {Head(s)} \cup ToSet(Tail(s))
         /\ OneEach(s) => OneEach(Tail(s)) /\ Head(s) \notin ToSet(Tail(s))
<1>1. PICK n \in Nat : Len(s) = n + 1
  <2>1. Len(s) \in Nat /\ Len(s) # 0
    OBVIOUS
  <2>2. Len(s) - 1 \in Nat /\ Len(s) = (Len(s) - 1) + 1
    BY <2>1
  <2> QED BY <2>2
<1>2. PICK t \in Seq(S) : t = Tail(s)
  BY HeadTailProperties
<1>3. Len(t) = n /\ Head(s) = s[1] /\ \A i \in 1..n : t[i] = s[i + 1]
  <2>1. Len(t) = Len(s) - 1 /\ \A i \in 1..Len(t) : t[i] = s[i + 1]
    BY <1>2, HeadTailProperties
  <2>2. Len(t) = n
    BY <1>1, <2>1
  <2> QED BY <2>1, <2>2
<1>m. \A x : /\ x \in ToSet(s) <=> \E i \in 1..(n + 1) : s[i] = x
             /\ x \in ToSet(t) <=> \E i \in 1..n : t[i] = x
  <2>1. \A x : x \in ToSet(s) <=> \E i \in 1..Len(s) : s[i] = x
    BY Members
  <2>2. \A x : x \in ToSet(t) <=> \E i \in 1..Len(t) : t[i] = x
    BY Members
  <2> QED BY <1>1, <1>3, <2>1, <2>2
<1>4. ToSet(s) = {s[1]} \cup ToSet(t)
  <2>1. ASSUME NEW x \in ToSet(s)
        PROVE  x \in {s[1]} \cup ToSet(t)
    <3>1. PICK i \in 1..(n + 1) : s[i] = x
      BY <1>m
    <3>2. CASE i = 1
      BY <3>1, <3>2
    <3>3. CASE i # 1
      <4>1. PICK k \in 1..n : i = k + 1
        <5>1. i - 1 \in 1..n /\ i = (i - 1) + 1
          BY <3>3
        <5> QED BY <5>1
      <4>2. t[k] = x
        BY <1>3, <3>1, <4>1
      <4> QED BY <1>m, <4>2
    <3> QED BY <3>2, <3>3
  <2>2. ASSUME NEW x \in ToSet(t)
        PROVE  x \in ToSet(s)
    <3>1. PICK i \in 1..n : t[i] = x
      BY <1>m, <2>2
    <3>2. i + 1 \in 1..(n + 1) /\ x = s[i + 1]
      BY <1>3, <3>1
    <3> QED BY <1>m, <3>2
  <2>3. 1 \in 1..(n + 1)
    OBVIOUS
  <2>4. s[1] \in ToSet(s)
    BY <1>m, <2>3
  <2> QED BY <2>1, <2>2, <2>4
<1>5. ASSUME OneEach(s)
      PROVE  OneEach(t) /\ s[1] \notin ToSet(t)
  <2>1. \A i, k \in 1..(n + 1) : s[i] = s[k] => i = k
    BY <1>1, <1>5 DEF OneEach
  <2>2. ASSUME NEW i \in 1..n, NEW k \in 1..n, t[i] = t[k]
        PROVE  i = k
    <3>1. i + 1 \in 1..(n + 1) /\ k + 1 \in 1..(n + 1) /\ s[i + 1] = s[k + 1]
      BY <1>3, <2>2
    <3>2. i + 1 = k + 1
      BY <2>1, <3>1
    <3> QED BY <3>2
  <2>3. ASSUME NEW i \in 1..n
        PROVE  t[i] # s[1]
    <3>1. i + 1 \in 1..(n + 1) /\ 1 \in 1..(n + 1) /\ i + 1 # 1
      OBVIOUS
    <3>2. s[i + 1] # s[1]
      BY <2>1, <3>1
    <3> QED BY <1>3, <3>2
  <2>4. OneEach(t)
    BY <1>3, <2>2 DEF OneEach
  <2> QED BY <1>m, <2>3, <2>4
<1>6. Head(s) \in S
  BY HeadTailProperties
<1> QED BY <1>2, <1>3, <1>4, <1>5, <1>6

LEMMA JoinedFacts ==
  ASSUME NEW S, NEW s \in Seq(S), NEW t \in Seq(S)
  PROVE  /\ s \o t \in Seq(S) /\ ToSet(s \o t) = ToSet(s) \cup ToSet(t)
         /\ OneEach(s) /\ OneEach(t) /\ ToSet(s) \cap ToSet(t) = {} => OneEach(s \o t)
<1>1. PICK m \in Nat, n \in Nat : Len(s) = m /\ Len(t) = n
  OBVIOUS
<1>2. PICK u \in Seq(S) : u = s \o t
  BY ConcatProperties
<1>3. Len(u) = m + n /\ \A i \in 1..(m + n) : u[i] = IF i <= m THEN s[i] ELSE t[i - m]
  BY <1>1, <1>2, ConcatProperties
<1>m. \A x : /\ x \in ToSet(s) <=> \E i \in 1..m : s[i] = x
             /\ x \in ToSet(t) <=> \E i \in 1..n : t[i] = x
             /\ x \in ToSet(u) <=> \E i \in 1..(m + n) : u[i] = x
  <2>1. \A x : x \in ToSet(s) <=> \E i \in 1..Len(s) : s[i] = x
    BY Members
  <2>2. \A x : x \in ToSet(t) <=> \E i \in 1..Len(t) : t[i] = x
    BY Members
  <2>3. \A x : x \in ToSet(u) <=> \E i \in 1..Len(u) : u[i] = x
    BY Members
  <2> QED BY <1>1, <1>3, <2>1, <2>2, <2>3
<1>4. \A i \in 1..(m + n) : \/ i \in 1..m /\ u[i] = s[i]
                            \/ i - m \in 1..n /\ ~ (i <= m) /\ u[i] = t[i - m]
  BY <1>3
<1>5. ToSet(u) \subseteq ToSet(s) \cup ToSet(t)
  BY <1>4, <1>m
<1>6. ToSet(s) \subseteq ToSet(u)
  <2>1. \A i \in 1..m : i \in 1..(m + n) /\ u[i] = s[i]
    BY <1>3
  <2> QED BY <1>m, <2>1
<1>7. ToSet(t) \subseteq ToSet(u)
  <2>1. ASSUME NEW i \in 1..n
        PROVE  \E k \in 1..(m + n) : u[k] = t[i]
    <3>1. m + i \in 1..(m + n) /\ ~ (m + i <= m) /\ (m + i) - m = i
      OBVIOUS
    <3>2. u[m + i] = t[i]
      BY <1>3, <3>1
    <3> QED BY <3>1, <3>2
  <2> QED BY <1>m, <2>1
<1>8. ToSet(u) = ToSet(s) \cup ToSet(t)
  BY <1>5, <1>6, <1>7
<1>9. ASSUME OneEach(s), OneEach(t), ToSet(s) \cap ToSet(t) = {}
      PROVE  OneEach(u)
  <2>1. ASSUME NEW i \in 1..(m + n), NEW k \in 1..(m + n), u[i] = u[k]
        PROVE  i = k
    <3>1. CASE i \in 1..m /\ k \in 1..m
      <4>1. s[i] = s[k]
        BY <1>3, <2>1, <3>1
      <4> QED BY <1>1, <1>9, <3>1, <4>1 DEF OneEach
    <3>2. CASE ~ (i <= m) /\ ~ (k <= m)
      <4>1. i - m \in 1..n /\ k - m \in 1..n /\ t[i - m] = t[k - m]
        BY <1>4, <2>1, <3>2
      <4>2. i - m = k - m
        BY <1>1, <1>9, <4>1 DEF OneEach
      <4> QED BY <4>2
    <3>3. CASE i \in 1..m /\ ~ (k <= m)
      <4>1. s[i] = t[k - m] /\ k - m \in 1..n
        BY <1>3, <1>4, <2>1, <3>3
      <4>2. s[i] \in ToSet(s) /\ t[k - m] \in ToSet(t)
        BY <1>m, <3>3, <4>1
      <4> QED BY <1>9, <4>1, <4>2
    <3>4. CASE ~ (i <= m) /\ k \in 1..m
      <4>1. s[k] = t[i - m] /\ i - m \in 1..n
        BY <1>3, <1>4, <2>1, <3>4
      <4>2. s[k] \in ToSet(s) /\ t[i - m] \in ToSet(t)
        BY <1>m, <3>4, <4>1
      <4> QED BY <1>9, <4>1, <4>2
    <3> QED BY <1>4, <3>1, <3>2, <3>3, <3>4
  <2> QED BY <1>3, <2>1 DEF OneEach
<1> QED BY <1>2, <1>8, <1>9

LeadsTo(g, c, t) == \E e \in ToSet(g.workEdges) : e[1] = c /\ e[2] = t

LEMMA OutFacts ==
  ASSUME NEW g, Drawn(g), NEW c \in g.units
  PROVE  /\ Out(g, c) \in Seq(g.units \cup {Nothing})
         /\ Targets(g, c) \subseteq g.units /\ Targets(g, c) \subseteq ToSet(Out(g, c))
         /\ \A t : t \in Targets(g, c) <=> LeadsTo(g, c, t)
<1>1. PICK n \in Nat : n = Len(g.workEdges)
  BY DEF Drawn
<1>2. PICK edges \in Seq(g.units \X g.units) : edges = g.workEdges
  BY DEF Drawn
<1>3. \A k \in 1..n : edges[k] \in g.units \X g.units
  BY <1>1, <1>2
<1>4. \A k \in 1..n : edges[k][1] \in g.units /\ edges[k][2] \in g.units /\ edges[k][2] # Nothing
  BY <1>3, NothingAssumption DEF Drawn
<1>5. PICK out : out = Out(g, c)
  OBVIOUS
<1>6. out = [k \in 1..n |-> IF edges[k][1] = c THEN edges[k][2] ELSE Nothing]
  BY <1>1, <1>2, <1>5 DEF Out
<1>7. out \in Seq(g.units \cup {Nothing}) /\ Len(out) = n
  BY <1>4, <1>6
<1>8. Targets(g, c) = ToSet(out) \ {Nothing} /\ ToSet(out) = {out[k] : k \in 1..n} /\ ToSet(edges) = {edges[k] : k \in 1..n}
  BY <1>1, <1>2, <1>5, <1>7 DEF Targets, ToSet
<1>9. ASSUME NEW t
      PROVE  t \in Targets(g, c) <=> LeadsTo(g, c, t)
  <2>1. ASSUME t \in Targets(g, c)
        PROVE  \E e \in ToSet(edges) : e[1] = c /\ e[2] = t
    <3>1. PICK k \in 1..n : out[k] = t /\ t # Nothing
      BY <1>8, <2>1
    <3>2. edges[k][1] = c /\ edges[k][2] = t
      BY <1>6, <3>1
    <3> QED BY <1>8, <3>2
  <2>2. ASSUME NEW e \in ToSet(edges), e[1] = c, e[2] = t
        PROVE  t \in Targets(g, c)
    <3>1. PICK k \in 1..n : e = edges[k]
      BY <1>8
    <3>2. out[k] = t /\ t # Nothing
      BY <1>4, <1>6, <2>2, <3>1
    <3> QED BY <1>8, <3>2
  <2> QED BY <1>2, <2>1, <2>2 DEF LeadsTo
<1>10. ToSet(out) \subseteq g.units \cup {Nothing}
  BY <1>4, <1>6, <1>8
<1> QED BY <1>2, <1>5, <1>7, <1>8, <1>9, <1>10

\* The new nodes of the queue.
LEMMA NewFacts ==
  ASSUME NEW g, Drawn(g), NEW c \in g.units, NEW S
  PROVE  NewIn(g, c, S) \in Seq(g.units) /\ ToSet(NewIn(g, c, S)) = Targets(g, c) \ S /\ OneEach(NewIn(g, c, S))
<1>1. PICK out \in Seq(g.units \cup {Nothing}) : out = Out(g, c)
  BY OutFacts
<1>2. PICK T : T = Targets(g, c) \ S
  OBVIOUS
<1>3. T \subseteq ToSet(out) /\ T \subseteq g.units
  BY <1>1, <1>2, OutFacts
<1>4. PICK new : new = Once(out, T)
  OBVIOUS
<1>5. new \in Seq((g.units \cup {Nothing}) \cap T) /\ ToSet(new) = ToSet(out) \cap T /\ OneEach(new)
  BY <1>1, <1>4, OnceFacts
<1>6. (g.units \cup {Nothing}) \cap T \subseteq g.units /\ ToSet(out) \cap T = T
  BY <1>3
<1>7. new \in Seq(g.units)
  BY <1>5, <1>6
<1>8. NewIn(g, c, S) = new
  BY <1>1, <1>2, <1>4 DEF NewIn
<1> QED BY <1>2, <1>5, <1>6, <1>7, <1>8

SearchStates(g) == [queue : Seq(g.units), seen : SUBSET g.units, rank : [g.units -> Nat]]

LEMMA MostOfTwo ==
  ASSUME NEW a \in Nat, NEW b \in Nat
  PROVE  Max({a, b}) = IF a >= b THEN a ELSE b
<1>1. \E x \in {a, b} : \A y \in {a, b} : x >= y
  OBVIOUS
<1>2. Max({a, b}) \in {a, b} /\ \A y \in {a, b} : Max({a, b}) >= y
  BY <1>1 DEF Max
<1> QED BY <1>2

\* A turn of the loop that has a node to pop.
LEMMA PoppedFacts ==
  ASSUME NEW g, Drawn(g), NEW s \in SearchStates(g), s.queue # <<>>
  PROVE  \E c \in g.units, p \in SearchStates(g) :
           /\ Turn(g, s) = p
           /\ c \in ToSet(s.queue)
           /\ p.seen = s.seen \cup Targets(g, c)
           /\ ToSet(s.queue) \subseteq ToSet(p.queue) \cup {c}
           /\ \A n \in g.units : p.rank[n] = IF n \in Targets(g, c) /\ ~ (s.rank[n] >= s.rank[c] + 1)
                                             THEN s.rank[c] + 1 ELSE s.rank[n]
           /\ OneEach(s.queue) /\ ToSet(s.queue) \subseteq s.seen =>
                /\ OneEach(p.queue)
                /\ ToSet(p.queue) = (ToSet(s.queue) \ {c}) \cup (Targets(g, c) \ s.seen)
<1>1. PICK c : c = Head(s.queue)
  OBVIOUS
<1>2. PICK rest : rest = Tail(s.queue)
  OBVIOUS
<1>3. s.queue \in Seq(g.units) /\ s.seen \in SUBSET g.units /\ s.rank \in [g.units -> Nat]
  BY DEF SearchStates
<1>4. c \in g.units /\ rest \in Seq(g.units) /\ ToSet(s.queue) = {c} \cup ToSet(rest)
  BY <1>1, <1>2, <1>3, TailFacts
<1>5. OneEach(s.queue) => OneEach(rest) /\ c \notin ToSet(rest)
  BY <1>1, <1>2, <1>3, TailFacts
<1>6. PICK new : new = NewIn(g, c, s.seen)
  OBVIOUS
<1>7. new \in Seq(g.units) /\ ToSet(new) = Targets(g, c) \ s.seen /\ OneEach(new)
  BY <1>4, <1>6, NewFacts
<1>8. PICK queue : queue = rest \o new
  OBVIOUS
<1>9. /\ queue \in Seq(g.units) /\ ToSet(queue) = ToSet(rest) \cup ToSet(new)
      /\ OneEach(rest) /\ ToSet(rest) \cap ToSet(new) = {} => OneEach(queue)
  BY <1>4, <1>7, <1>8, JoinedFacts
<1>10. PICK T : T = Targets(g, c) /\ T \subseteq g.units
  BY <1>4, OutFacts
<1>11. PICK rank : rank = [n \in g.units |-> IF n \in T THEN Max({s.rank[n], s.rank[c] + 1}) ELSE s.rank[n]]
  OBVIOUS
<1>12. ASSUME NEW n \in g.units
       PROVE  rank[n] \in Nat /\ rank[n] = IF n \in T /\ ~ (s.rank[n] >= s.rank[c] + 1) THEN s.rank[c] + 1 ELSE s.rank[n]
  <2>1. s.rank[n] \in Nat /\ s.rank[c] + 1 \in Nat
    BY <1>3, <1>4
  <2>2. Max({s.rank[n], s.rank[c] + 1}) = IF s.rank[n] >= s.rank[c] + 1 THEN s.rank[n] ELSE s.rank[c] + 1
    BY <2>1, MostOfTwo
  <2> QED BY <1>11, <2>1, <2>2
<1>13. PICK p : p = [queue |-> queue, seen |-> s.seen \cup T, rank |-> rank]
  OBVIOUS
<1>14. p.queue = queue /\ p.seen = s.seen \cup T /\ p.rank = rank
  BY <1>13
<1>15. p \in SearchStates(g)
  <2>1. rank \in [g.units -> Nat]
    BY <1>11, <1>12
  <2> QED BY <1>3, <1>9, <1>10, <1>13, <2>1 DEF SearchStates
<1>16. Turn(g, s) = p
  BY <1>1, <1>2, <1>6, <1>8, <1>10, <1>11, <1>13 DEF Turn, Popped
<1>17. OneEach(s.queue) /\ ToSet(s.queue) \subseteq s.seen =>
         OneEach(queue) /\ ToSet(queue) = (ToSet(s.queue) \ {c}) \cup (T \ s.seen)
  BY <1>4, <1>5, <1>7, <1>9, <1>10
<1>18. /\ c \in ToSet(s.queue)
       /\ ToSet(s.queue) \subseteq ToSet(queue) \cup {c}
  BY <1>4, <1>9
<1>19. p.seen = s.seen \cup Targets(g, c)
  BY <1>10, <1>14
<1>20. \A n \in g.units : p.rank[n] = IF n \in Targets(g, c) /\ ~ (s.rank[n] >= s.rank[c] + 1)
                                      THEN s.rank[c] + 1 ELSE s.rank[n]
  BY <1>10, <1>12, <1>14
<1>21. OneEach(s.queue) /\ ToSet(s.queue) \subseteq s.seen =>
         OneEach(p.queue) /\ ToSet(p.queue) = (ToSet(s.queue) \ {c}) \cup (Targets(g, c) \ s.seen)
  BY <1>10, <1>14, <1>17
<1>22. ToSet(s.queue) \subseteq ToSet(p.queue) \cup {c}
  BY <1>14, <1>18
<1> QED BY <1>4, <1>15, <1>16, <1>18, <1>19, <1>20, <1>21, <1>22

LEMMA RootsFacts ==
  ASSUME NEW g, Drawn(g)
  PROVE  /\ Roots(g) \in Seq(g.units) /\ OneEach(Roots(g))
         /\ LET without == {c \in g.units : \A e \in ToSet(g.workEdges) : e[2] # c}
            IN without # {} => ToSet(Roots(g)) = without
<1>1. PICK W \in SUBSET g.units : W = {c \in g.units : \A e \in ToSet(g.workEdges) : e[2] # c}
  OBVIOUS
<1>2. PICK first : first = Once(NodeOrder, W)
  OBVIOUS
<1>3. first \in Seq(W) /\ ToSet(first) = W /\ OneEach(first)
  BY <1>1, <1>2, NodesFacts DEF Drawn
<1>4. PICK nodes : nodes = NodesOf(g)
  OBVIOUS
<1>5. nodes \in Seq(g.units) /\ ToSet(nodes) = g.units
  BY <1>4, NodesFacts DEF NodesOf, Drawn
<1>6. Roots(g) = IF first = <<>> THEN <<Head(nodes)>> ELSE first
  BY <1>1, <1>2, <1>4 DEF Roots
<1>7. W = {} <=> first = <<>>
  <2>1. first = <<>> => ToSet(first) = {}
    BY DEF ToSet
  <2>2. ASSUME first # <<>>
        PROVE  Head(first) \in W
    BY <1>3, <2>2, HeadTailProperties
  <2> QED BY <1>3, <2>1, <2>2
<1>8. CASE first = <<>>
  <2>1. nodes # <<>>
    <3>1. nodes = <<>> => ToSet(nodes) = {}
      BY DEF ToSet
    <3> QED BY <1>5, <3>1 DEF Drawn
  <2>2. PICK r \in g.units : r = Head(nodes)
    BY <1>5, <2>1, HeadTailProperties
  <2>3. Roots(g) = <<r>>
    BY <1>6, <1>8, <2>2
  <2>4. <<r>> \in Seq(g.units)
    <3>1. PICK U : U = g.units
      OBVIOUS
    <3>2. r \in U
      BY <3>1
    <3>3. <<r>> \in Seq(U)
      BY <3>2
    <3> QED BY <3>1, <3>3
  <2>5. OneEach(<<r>>)
    <3>1. Len(<<r>>) = 1
      OBVIOUS
    <3>2. \A i, k \in 1..1 : i = k
      OBVIOUS
    <3> QED BY <3>1, <3>2 DEF OneEach
  <2> QED BY <1>1, <1>7, <1>8, <2>3, <2>4, <2>5
<1>9. CASE first # <<>>
  <2>1. first \in Seq(g.units)
    BY <1>3
  <2> QED BY <1>1, <1>3, <1>6, <1>9, <2>1
<1> QED BY <1>8, <1>9

\* The turns of the loop, and the rank at their end.
LEMMA TurnsRun ==
  ASSUME NEW g, Drawn(g)
  PROVE  \E f : /\ f \in [0..Len(NodeOrder) -> SearchStates(g)]
                /\ f[0] = Queued(g)
                /\ \A k \in 1..Len(NodeOrder) : f[k] = Turn(g, f[k - 1])
                /\ Rank(g) = f[Len(NodeOrder)].rank
<1> DEFINE Turns(f) == f = [k \in 0..Len(NodeOrder) |-> IF k = 0 THEN Queued(g) ELSE Turn(g, f[k - 1])]
<1>1. PICK n \in Nat : n = Len(NodeOrder)
  BY NodeAssumption
<1>2. PICK X : X = SearchStates(g)
  OBVIOUS
<1>3. PICK start \in X : start = Queued(g)
  <2>1. PICK r : r = Roots(g)
    OBVIOUS
  <2>2. r \in Seq(g.units)
    BY <2>1, RootsFacts
  <2>3. ToSet(r) \subseteq g.units
    BY <2>2, Members
  <2>4. [m \in g.units |-> 0] \in [g.units -> Nat]
    OBVIOUS
  <2>5. [queue |-> r, seen |-> ToSet(r), rank |-> [m \in g.units |-> 0]] \in X
    BY <1>2, <2>2, <2>3, <2>4 DEF SearchStates
  <2> QED BY <2>1, <2>5 DEF Queued
<1>4. \A q \in X : Turn(g, q) \in X
  <2>1. ASSUME NEW q \in X, q.queue = <<>>
        PROVE  Turn(g, q) \in X
    BY <2>1 DEF Turn
  <2>2. ASSUME NEW q \in X, q.queue # <<>>
        PROVE  Turn(g, q) \in X
    BY <1>2, <2>2, PoppedFacts
  <2> QED BY <2>1, <2>2
<1>5. Rank(g) = (CHOOSE f : Turns(f))[n].rank
  BY <1>1 DEF Rank
<1>6. \E f : Turns(f)
  <2>1. PICK step : step = [k \in 1..n |-> [q \in X |-> Turn(g, q)]]
    OBVIOUS
  <2>2. step \in [1..n -> [X -> X]]
    BY <1>4, <2>1
  <2>3. PICK f : RunOf(f, n, X, start, step)
    BY <2>2, StepsDefine
  <2>4. ASSUME NEW k \in 1..n
        PROVE  f[k] = Turn(g, f[k - 1])
    <3>1. f[k - 1] \in X /\ f[k] = step[k][f[k - 1]]
      BY <2>3 DEF RunOf
    <3> QED BY <2>1, <3>1
  <2>5. \A k \in 0..n : f[k] = IF k = 0 THEN Queued(g) ELSE Turn(g, f[k - 1])
    BY <1>3, <2>3, <2>4 DEF RunOf
  <2>6. Turns(f)
    BY <1>1, <2>3, <2>5 DEF RunOf
  <2> QED BY <2>6
<1>7. PICK f : Turns(f) /\ Rank(g) = f[n].rank
  BY <1>5, <1>6
<1>8. f[0] = Queued(g) /\ \A k \in 1..n : f[k] = Turn(g, f[k - 1])
  <2>1. \A k \in 0..n : f[k] = IF k = 0 THEN Queued(g) ELSE Turn(g, f[k - 1])
    BY <1>1, <1>7
  <2> QED BY <2>1
<1>9. f \in [0..n -> X]
  <2>1. PICK K : K = {k \in 0..n : f[k] \in X}
    OBVIOUS
  <2>2. 0 \in K
    BY <1>3, <1>8, <2>1
  <2>3. \A k \in 1..n : k - 1 \in K => k \in K
    BY <1>4, <1>8, <2>1
  <2>4. 0..n \subseteq K
    BY <2>2, <2>3, UpTo
  <2>5. \A k \in 0..n : f[k] \in X
    BY <2>1, <2>4
  <2>6. f = [k \in 0..n |-> f[k]]
    BY <1>1, <1>7
  <2> QED BY <2>5, <2>6
<1> QED BY <1>1, <1>2, <1>7, <1>8, <1>9

-----------------------------------------------------------------------------
(* A forest is drawn column by column.                                     *)

LEMMA EdgeEnds ==
  ASSUME NEW g, Drawn(g), NEW e \in ToSet(g.workEdges)
  PROVE  e[1] \in g.units /\ e[2] \in g.units /\ e[1] # e[2]
<1>1. PICK edges \in Seq(g.units \X g.units) : edges = g.workEdges
  BY DEF Drawn
<1>2. PICK k \in 1..Len(edges) : edges[k] = e
  BY <1>1, Members
<1>3. e \in g.units \X g.units
  BY <1>1, <1>2
<1> QED BY <1>3 DEF Drawn

\* No unit has two edges into it.
LEMMA OneSource ==
  ASSUME NEW g, Drawn(g), Forest(g), NEW d \in ToSet(g.workEdges), NEW e \in ToSet(g.workEdges), d[2] = e[2]
  PROVE  d = e
<1>1. PICK edges \in Seq(g.units \X g.units) : edges = g.workEdges
  BY DEF Drawn
<1>2. PICK i \in 1..Len(edges) : edges[i] = d
  BY <1>1, Members
<1>3. PICK k \in 1..Len(edges) : edges[k] = e
  BY <1>1, Members
<1>4. i = k
  BY <1>1, <1>2, <1>3 DEF Forest
<1> QED BY <1>2, <1>3, <1>4

\* What holds after k turns: the popped nodes are those that were queued and
\* are not in the queue.
Searched(g, s, k) ==
  LET popped == s.seen \ ToSet(s.queue) IN
    /\ OneEach(s.queue) /\ ToSet(s.queue) \subseteq s.seen /\ ToSet(Roots(g)) \subseteq s.seen
    /\ \A e \in ToSet(g.workEdges) :
         IF e[1] \in popped THEN e[2] \in s.seen /\ s.rank[e[2]] = s.rank[e[1]] + 1
                            ELSE e[2] \notin s.seen /\ s.rank[e[2]] = 0
    /\ s.queue = <<>> \/ Cardinality(popped) = k

LEMMA SearchedFirst ==
  ASSUME NEW g, Drawn(g), Forest(g)
  PROVE  Searched(g, Queued(g), 0)
<1>1. PICK W : W = {c \in g.units : \A e \in ToSet(g.workEdges) : e[2] # c}
  OBVIOUS
<1>2. W # {}
  <2>1. PICK c \in g.units : \A e \in ToSet(g.workEdges) : e[2] = c => e[1] \notin g.units
    BY DEF Forest, Drawn
  <2>2. \A e \in ToSet(g.workEdges) : e[2] # c
    BY <2>1, EdgeEnds
  <2> QED BY <1>1, <2>2
<1>3. ToSet(Roots(g)) = W /\ OneEach(Roots(g))
  BY <1>1, <1>2, RootsFacts
<1>4. PICK s : s = Queued(g)
  OBVIOUS
<1>5. s.queue = Roots(g) /\ s.seen = ToSet(Roots(g)) /\ s.rank = [n \in g.units |-> 0]
  BY <1>4 DEF Queued
<1>6. s.seen \ ToSet(s.queue) = {} /\ Cardinality({}) = 0
  BY <1>5, FS_EmptySet
<1>7. ASSUME NEW e \in ToSet(g.workEdges)
      PROVE  e[2] \notin s.seen /\ s.rank[e[2]] = 0
  BY <1>1, <1>3, <1>5, EdgeEnds
<1> QED BY <1>3, <1>4, <1>5, <1>6, <1>7 DEF Searched

LEMMA SearchedNext ==
  ASSUME NEW g, Drawn(g), Forest(g), NEW s \in SearchStates(g), NEW k \in Nat, Searched(g, s, k)
  PROVE  Searched(g, Turn(g, s), k + 1)
<1>1. CASE s.queue = <<>>
  BY <1>1 DEF Turn, Searched
<1>2. CASE s.queue # <<>>
  <2>1. PICK c \in g.units, p \in SearchStates(g) :
           /\ Turn(g, s) = p
           /\ c \in ToSet(s.queue)
           /\ p.seen = s.seen \cup Targets(g, c)
           /\ \A n \in g.units : p.rank[n] = IF n \in Targets(g, c) /\ ~ (s.rank[n] >= s.rank[c] + 1)
                                             THEN s.rank[c] + 1 ELSE s.rank[n]
           /\ OneEach(s.queue) /\ ToSet(s.queue) \subseteq s.seen =>
                /\ OneEach(p.queue)
                /\ ToSet(p.queue) = (ToSet(s.queue) \ {c}) \cup (Targets(g, c) \ s.seen)
    BY <1>2, PoppedFacts
  <2>2. PICK T : T = Targets(g, c)
    OBVIOUS
  <2>3. PICK before, after : before = s.seen \ ToSet(s.queue) /\ after = p.seen \ ToSet(p.queue)
    OBVIOUS
  <2>4. /\ OneEach(s.queue) /\ ToSet(s.queue) \subseteq s.seen /\ ToSet(Roots(g)) \subseteq s.seen
        /\ Cardinality(before) = k
        /\ \A e \in ToSet(g.workEdges) :
             IF e[1] \in before THEN e[2] \in s.seen /\ s.rank[e[2]] = s.rank[e[1]] + 1
                                ELSE e[2] \notin s.seen /\ s.rank[e[2]] = 0
    BY <1>2, <2>3 DEF Searched
  <2>5. \A t : t \in T <=> \E e \in ToSet(g.workEdges) : e[1] = c /\ e[2] = t
    <3>1. \A t : t \in Targets(g, c) <=> LeadsTo(g, c, t)
      BY OutFacts
    <3> QED BY <2>2, <3>1 DEF LeadsTo
  <2>6. c \in s.seen /\ c \notin before
    BY <2>1, <2>3, <2>4
  <2>7. \A t \in T : t \notin s.seen /\ t \in g.units /\ s.rank[t] = 0
    BY <2>4, <2>5, <2>6, EdgeEnds
  <2>8. OneEach(p.queue) /\ ToSet(p.queue) = (ToSet(s.queue) \ {c}) \cup T /\ p.seen = s.seen \cup T
    BY <2>1, <2>2, <2>4, <2>7
  <2>9. after = before \cup {c}
    BY <2>3, <2>4, <2>6, <2>7, <2>8
  <2>10. \A n \in g.units : s.rank[n] \in Nat
    BY DEF SearchStates
  <2>11. \A n \in g.units : p.rank[n] = IF n \in T THEN s.rank[c] + 1 ELSE s.rank[n]
    <3>1. ASSUME NEW n \in T
          PROVE  ~ (s.rank[n] >= s.rank[c] + 1)
      <4>1. s.rank[n] = 0 /\ s.rank[c] \in Nat
        BY <2>7, <2>10
      <4> QED BY <4>1
    <3> QED BY <2>1, <2>2, <3>1
  <2>12. ASSUME NEW e \in ToSet(g.workEdges)
         PROVE  IF e[1] \in after THEN e[2] \in p.seen /\ p.rank[e[2]] = p.rank[e[1]] + 1
                                  ELSE e[2] \notin p.seen /\ p.rank[e[2]] = 0
    <3>1. e[1] \in g.units /\ e[2] \in g.units
      BY EdgeEnds
    <3>2. CASE e[1] \in before
      <4>1. e[2] \in s.seen /\ s.rank[e[2]] = s.rank[e[1]] + 1 /\ e[1] \in s.seen
        BY <2>3, <2>4, <3>2
      <4>2. e[1] \notin T /\ e[2] \notin T
        BY <2>7, <4>1
      <4> QED BY <2>8, <2>9, <2>11, <3>1, <3>2, <4>1, <4>2
    <3>3. CASE e[1] = c
      <4>1. e[2] \in T /\ c \notin T
        BY <2>5, <2>6, <2>7, <3>3
      <4> QED BY <2>8, <2>9, <2>11, <3>1, <3>3, <4>1
    <3>4. CASE e[1] \notin before /\ e[1] # c
      <4>1. e[2] \notin s.seen /\ s.rank[e[2]] = 0
        BY <2>4, <3>4
      <4>2. e[2] \notin T
        <5>1. ASSUME NEW d \in ToSet(g.workEdges), d[1] = c, d[2] = e[2]
              PROVE  FALSE
          <6>1. d = e
            BY <5>1, OneSource
          <6> QED BY <3>4, <5>1, <6>1
        <5> QED BY <2>5, <5>1
      <4> QED BY <2>8, <2>9, <2>11, <3>1, <3>4, <4>1, <4>2
    <3> QED BY <3>2, <3>3, <3>4
  <2>13. Cardinality(after) = k + 1
    <3>1. before \in SUBSET g.units
      BY <2>3 DEF SearchStates
    <3>2. IsFiniteSet(before)
      BY <3>1, UnitsFinite, FS_Subset
    <3> QED BY <2>4, <2>6, <2>9, <3>2, FS_AddElement
  <2>14. ToSet(p.queue) \subseteq p.seen /\ ToSet(Roots(g)) \subseteq p.seen
    BY <2>4, <2>8
  <2> QED BY <2>1, <2>3, <2>8, <2>12, <2>13, <2>14 DEF Searched
<1> QED BY <1>1, <1>2

\* At the end every node was popped.
LEMMA SearchedAll ==
  ASSUME NEW g, Drawn(g), Forest(g), NEW s \in SearchStates(g), Searched(g, s, Len(NodeOrder)),
         NEW e \in ToSet(g.workEdges)
  PROVE  s.rank[e[2]] = s.rank[e[1]] + 1
<1>1. PICK popped : popped = s.seen \ ToSet(s.queue)
  OBVIOUS
<1>2. popped \in SUBSET Codes /\ popped \subseteq g.units /\ s.seen \subseteq g.units
  BY <1>1 DEF SearchStates, Drawn
<1>3. /\ OneEach(s.queue) /\ ToSet(s.queue) \subseteq s.seen /\ ToSet(Roots(g)) \subseteq s.seen
      /\ s.queue = <<>> \/ Cardinality(popped) = Len(NodeOrder)
      /\ \A d \in ToSet(g.workEdges) :
           IF d[1] \in popped THEN d[2] \in s.seen /\ s.rank[d[2]] = s.rank[d[1]] + 1
                              ELSE d[2] \notin s.seen /\ s.rank[d[2]] = 0
  BY <1>1 DEF Searched
<1>4. popped = s.seen
  <2>1. CASE s.queue = <<>>
    <3>1. ToSet(s.queue) = {}
      BY <2>1 DEF ToSet
    <3> QED BY <1>1, <3>1
  <2>2. CASE Cardinality(popped) = Len(NodeOrder)
    <3>1. Cardinality(popped) = Cardinality(Codes)
      BY <2>2, NodeAssumption
    <3>2. popped = Codes
      BY <1>2, <3>1, CodesFinite, FS_Subset
    <3> QED BY <1>1, <1>2, <3>2 DEF Drawn
  <2> QED BY <1>3, <2>1, <2>2
<1>5. s.seen = g.units
  <2> SUFFICES ASSUME s.seen # g.units
               PROVE  FALSE
    OBVIOUS
  <2>1. PICK W \in SUBSET g.units : W = g.units \ s.seen
    OBVIOUS
  <2>2. W # {}
    BY <1>2, <2>1
  <2>3. PICK c \in W : \A d \in ToSet(g.workEdges) : d[2] = c => d[1] \notin W
    BY <2>2 DEF Forest
  <2>4. PICK d \in ToSet(g.workEdges) : d[2] = c
    <3>1. PICK without : without = {n \in g.units : \A d \in ToSet(g.workEdges) : d[2] # n}
      OBVIOUS
    <3>2. ToSet(Roots(g)) = without \/ without = {}
      BY <3>1, RootsFacts
    <3>3. c \notin without
      BY <1>3, <2>1, <3>2
    <3> QED BY <2>1, <3>1, <3>3
  <2>5. d[1] \in s.seen
    BY <2>1, <2>3, <2>4, EdgeEnds
  <2>6. d[2] \in s.seen
    BY <1>3, <1>4, <2>5
  <2> QED BY <2>1, <2>4, <2>6
<1> QED BY <1>3, <1>4, <1>5, EdgeEnds

\* Each edge of a forest goes one column to the right.
LEMMA EdgesGoRight ==
  ASSUME NEW g, Drawn(g), Forest(g), NEW e \in ToSet(g.workEdges)
  PROVE  Layout(g)[e[2]][1] = Layout(g)[e[1]][1] + 1
<1>1. PICK n \in Nat : n = Len(NodeOrder)
  BY NodeAssumption
<1>2. PICK f : /\ f \in [0..n -> SearchStates(g)]
               /\ f[0] = Queued(g)
               /\ \A k \in 1..n : f[k] = Turn(g, f[k - 1])
               /\ Rank(g) = f[n].rank
  BY <1>1, TurnsRun
<1>3. PICK K : K = {k \in 0..n : Searched(g, f[k], k)}
  OBVIOUS
<1>4. 0 \in K
  BY <1>2, <1>3, SearchedFirst
<1>5. ASSUME NEW k \in 1..n, k - 1 \in K
      PROVE  k \in K
  <2>1. PICK i \in Nat : i = k - 1 /\ k = i + 1
    <3>1. k - 1 \in Nat /\ k = (k - 1) + 1
      OBVIOUS
    <3> QED BY <3>1
  <2>2. f[i] \in SearchStates(g) /\ Searched(g, f[i], i) /\ f[k] = Turn(g, f[i])
    BY <1>2, <1>3, <1>5, <2>1
  <2>3. Searched(g, f[k], i + 1)
    BY <2>2, SearchedNext
  <2> QED BY <1>3, <2>1, <2>3
<1>6. 0..n \subseteq K
  BY <1>4, <1>5, UpTo
<1>7. f[n] \in SearchStates(g) /\ Searched(g, f[n], n)
  BY <1>2, <1>3, <1>6
<1>8. Rank(g)[e[2]] = Rank(g)[e[1]] + 1
  BY <1>1, <1>2, <1>7, SearchedAll
<1>9. \A c \in g.units : Layout(g)[c][1] = Rank(g)[c]
  BY DEF Layout
<1> QED BY <1>8, <1>9, EdgeEnds

-----------------------------------------------------------------------------
(* What the Work Graph page draws.                                         *)

\* The tables hold every unit, and edges between two units.
TablesFit(rows) == rows["units"] = Codes /\ rows["workEdges"] \in Seq(Edges)

\* A handler adds an edge between units; an answer has all of them.
JobFits(j) ==
  /\ j.op = "addWorkEdge" => j.arg \in Codes \X Codes
  /\ j.op \in {"units", "graph"} /\ Succeeded(j) => j.body.units = Codes
  /\ j.op = "graph" /\ Succeeded(j) => j.body.workEdges \in Seq(Edges)

GraphInv ==
  page = "workGraph" =>
    /\ TablesFit(db)
    /\ shown["units"].units = Codes
    /\ Graph.units \in {{}, Codes} /\ Graph.workEdges \in Seq(Edges)
    /\ \A j \in jobs : JobFits(j)

LEMMA GraphNames ==
  /\ HooksOf["workGraph"] = {"graph", "units"}
  /\ \A f \in Forms : FormOf[f].page = "workGraph" => f = "addWorkEdge"
  /\ "addWorkEdge" \notin Hooks /\ "graph" \notin Forms /\ "units" \notin Forms
<1>1. HooksOf["workGraph"] = {"graph", "units"}
  BY DEF HooksOf, WorkGraphHooks
<1>2. \A f \in Forms : FormOf[f].page = "workGraph" => f = "addWorkEdge"
  BY FormsNamed DEF FormOf, Form, CreateUnit, Reconcile, MakeAuthoritative, Promote, Demote, RunCensus,
     DownloadPack, RecordRun, SaveScores, SaveProfile, AddType, AddEntity, AddEdge, AddEntry, Suggest,
     AddTrace, AddIntent, Accept, Merge, Reject, ScanGaps, RecordGap, AddWorkEdge, PrepareDemo,
     DownloadProjections
<1>3. "addWorkEdge" \notin Hooks /\ "graph" \notin Forms /\ "units" \notin Forms
  BY HooksNamed, FormsNamed
<1> QED BY <1>1, <1>2, <1>3

\* What waits for its answer fits, but an edge that is none.
LEMMA SentFits ==
  ASSUME NEW m, m.stage = "sent", m.op # "addWorkEdge"
  PROVE  JobFits(m)
BY DEF JobFits, Succeeded

LEMMA LoadFits ==
  ASSUME NEW h \in Hooks
  PROVE  JobFits(Load(h))
BY LoadMade, SentFits, GraphNames

\* Tables that fit are read as they are.
LEMMA ViewFits ==
  ASSUME TablesFit(db), NEW body, NEW h \in {"graph", "units"}, body = View(h)
  PROVE  body.units = Codes /\ (h = "graph" => body.workEdges \in Seq(Edges))
<1>1. {"units"} \subseteq TablesOf(h) /\ (h = "graph" => "workEdges" \in TablesOf(h))
  BY DEF TablesOf
<1>2. body.units = db["units"]
  BY <1>1 DEF View
<1>3. h = "graph" => body.workEdges = db["workEdges"]
  BY <1>1 DEF View
<1> QED BY <1>2, <1>3 DEF TablesFit

\* A route that answers j with tables that fit, and with a view of them.
LEMMA AnswerFits ==
  ASSUME ShapeInv, GraphInv, page = "workGraph", UNCHANGED <<page, shown>>,
         NEW j \in jobs, NEW code, NEW body, NEW rows, Answers(j, code, body, rows), TablesFit(rows),
         j.op \in {"units", "graph"} => body = View(j.op)
  PROVE  GraphInv'
<1>1. TablesFit(db) /\ JobShape(j) /\ JobFits(j)
  BY DEF ShapeInv, GraphInv
<1>2. PICK m : /\ m.op = j.op /\ m.arg = j.arg
               /\ jobs' = (jobs \ {j}) \cup {m}
               /\ \/ m.code = code /\ m.body = body /\ db' = rows
                  \/ m.code = "lost" /\ db' \in {db, rows}
  BY <1>1, JobAnswered
<1>3. TablesFit(db')
  BY <1>1, <1>2
<1>4. JobFits(m)
  <2>1. CASE m.code = "lost"
    BY <1>1, <1>2, <2>1 DEF JobFits, Succeeded
  <2>2. CASE m.body = body
    <3>1. j.op \in {"units", "graph"} => body.units = Codes
      BY <1>1, ViewFits
    <3>2. j.op = "graph" => body.workEdges \in Seq(Edges)
      BY <1>1, ViewFits
    <3> QED BY <1>1, <1>2, <2>2, <3>1, <3>2 DEF JobFits
  <2> QED BY <1>2, <2>1, <2>2
<1>5. \A k \in jobs' : JobFits(k)
  BY <1>2, <1>4 DEF GraphInv
<1>6. /\ shown' = shown /\ page' = page
  OBVIOUS
<1>7. Graph' = Graph
  BY <1>6 DEF Graph
<1>8. TablesFit(db)' /\ \A k : JobFits(k)' <=> JobFits(k)
  BY <1>3 DEF TablesFit, JobFits, Succeeded
<1> QED BY <1>5, <1>6, <1>7, <1>8 DEF GraphInv

\* Adding an edge keeps the tables.
LEMMA EdgeFits ==
  ASSUME ShapeInv, TablesFit(db), NEW j, j.op = "addWorkEdge", JobFits(j), Allowed(j.op, j.arg),
         NEW rows \in After(j.op, j.arg, j.n)
  PROVE  TablesFit(rows)
<1>1. DOMAIN db = Tables /\ {"units", "workEdges"} \subseteq Tables
  BY DEF ShapeInv, Tables
<1>2. rows = [db EXCEPT !["workEdges"] = Append(@, j.arg)]
  BY DEF After
<1>3. PICK arg : arg = j.arg
  OBVIOUS
<1>4. arg \in Edges
  BY <1>3 DEF JobFits, Allowed, Edges
<1>5. PICK edges \in Seq(Edges) : edges = db["workEdges"]
  BY DEF TablesFit
<1>6. Append(edges, arg) \in Seq(Edges)
  BY <1>4
<1>7. rows["workEdges"] = Append(edges, arg) /\ rows["units"] = db["units"]
  BY <1>1, <1>2, <1>3, <1>5
<1> QED BY <1>6, <1>7 DEF TablesFit

LEMMA GraphServed ==
  ASSUME ShapeInv, GraphInv, page = "workGraph", Served
  PROVE  GraphInv' /\ page' = page
<1>0. page \in Pages /\ TablesFit(db) /\ \A j \in jobs : j.op \in Ops /\ JobFits(j)
  BY DEF ShapeInv, GraphInv
<1>1. ASSUME NEW j \in jobs, ReadAnswered(j)
      PROVE  GraphInv' /\ page' = page
  BY <1>0, <1>1, AnswerFits DEF ReadAnswered
<1>2. ASSUME NEW j \in jobs, FormServed(j)
      PROVE  GraphInv' /\ page' = page
  <2>1. j.op \in Forms /\ FormOf[j.op].page = page /\ UNCHANGED <<page, shown>>
    BY <1>0, <1>2, OpsSplit DEF FormServed
  <2>2. j.op = "addWorkEdge" /\ j.op \notin {"units", "graph"}
    BY <2>1, GraphNames
  <2>3. CASE \E code : Answers(j, code, <<>>, db)
    BY <1>0, <2>1, <2>2, <2>3, AnswerFits
  <2>4. ASSUME Allowed(j.op, j.arg), NEW rows \in After(j.op, j.arg, j.n), Answers(j, "ok", <<>>, rows)
        PROVE  GraphInv' /\ page' = page
    <3>1. TablesFit(rows)
      BY <1>0, <2>2, <2>4, EdgeFits
    <3> QED BY <2>1, <2>2, <2>4, <3>1, AnswerFits
  <2> QED BY <1>2, <2>3, <2>4 DEF FormServed
<1>3. ASSUME NEW j \in jobs, UploadServed(j) \/ BulkServed(j)
      PROVE  GraphInv' /\ page' = page
  <2>1. j.op \notin UploadSteps /\ j.op # "bulk"
    BY <1>0, OpsSplit
  <2> QED BY <1>3, <2>1 DEF UploadServed, BulkServed
<1> QED BY <1>1, <1>2, <1>3 DEF Served

LEMMA GraphHeard ==
  ASSUME ShapeInv, GraphInv, page = "workGraph", Heard
  PROVE  GraphInv' /\ page' = page
<1>0. /\ page \in Pages /\ TablesFit(db) /\ \A j \in jobs : JobFits(j)
      /\ DOMAIN shown = {"graph", "units"} /\ shown["units"].units = Codes
      /\ shown["graph"].units \in {{}, Codes} /\ shown["graph"].workEdges \in Seq(Edges)
  BY GraphNames DEF ShapeInv, GraphInv, Graph
<1>1. \A j : JobFits(j)' <=> JobFits(j)
  BY DEF JobFits, Succeeded
<1>2. ASSUME NEW j \in jobs, ReadEffect(j)
      PROVE  GraphInv' /\ page' = page
  <2>1. page' = page /\ TablesFit(db)' /\ \A k \in jobs' : JobFits(k)'
    BY <1>0, <1>1, <1>2 DEF ReadEffect, TablesFit
  <2>2. /\ shown'["units"].units = Codes
        /\ shown'["graph"].units \in {{}, Codes} /\ shown'["graph"].workEdges \in Seq(Edges)
    <3>1. CASE j.code = "ok" /\ j.op = "units"
      <4>1. shown'["units"] = j.body /\ shown'["graph"] = shown["graph"]
        BY <1>0, <1>2, <3>1 DEF ReadEffect
      <4>2. j.body.units = Codes
        BY <1>0, <1>2, <3>1 DEF ReadEffect, JobFits, Succeeded
      <4> QED BY <1>0, <4>1, <4>2
    <3>2. CASE j.code = "ok" /\ j.op = "graph"
      <4>1. shown'["graph"] = j.body /\ shown'["units"] = shown["units"]
        BY <1>0, <1>2, <3>2 DEF ReadEffect
      <4>2. j.body.units = Codes /\ j.body.workEdges \in Seq(Edges)
        BY <1>0, <1>2, <3>2 DEF ReadEffect, JobFits, Succeeded
      <4> QED BY <1>0, <4>1, <4>2
    <3>3. CASE ~ (j.code = "ok" /\ j.op \in {"units", "graph"})
      <4>1. shown'["graph"] = shown["graph"] /\ shown'["units"] = shown["units"]
        BY <1>0, <1>2, <3>3 DEF ReadEffect
      <4> QED BY <1>0, <4>1
    <3> QED BY <3>1, <3>2, <3>3
  <2> QED BY <2>1, <2>2 DEF GraphInv, Graph
<1>3. ASSUME NEW j \in jobs, NEW hs, NEW new, HeardEffect(j, hs, new)
      PROVE  GraphInv' /\ page' = page
  <2>1. /\ Going(jobs \ {j}, hs, new) /\ hs \subseteq HooksOf[page]
        /\ page' = page /\ db' = db /\ shown' = shown
        /\ \A m \in new : m.stage = "sent" /\ m.op \notin Forms
    BY <1>3 DEF HeardEffect, Going
  <2>2. ASSUME NEW k \in jobs'
        PROVE  JobFits(k)
    <3>1. CASE k \in new
      <4>1. "addWorkEdge" \in Forms
        BY FormsNamed
      <4> QED BY <2>1, <3>1, <4>1, SentFits
    <3>2. CASE k \in jobs
      BY <1>0, <3>2
    <3>3. CASE k.op \in hs /\ k = Load(k.op)
      <4>1. k.op \in Hooks
        BY <1>0, <2>1, <3>3 DEF Hooks
      <4>2. JobFits(Load(k.op))
        BY <4>1, LoadFits
      <4> QED BY <3>3, <4>2
    <3> QED BY <2>1, <2>2, <3>1, <3>2, <3>3, GoingOn
  <2>3. TablesFit(db)' /\ Graph' = Graph
    BY <1>0, <2>1 DEF TablesFit, Graph
  <2> QED BY <1>1, <2>1, <2>2, <2>3 DEF GraphInv
<1> QED BY <1>2, <1>3, ReadHeardStep, FormHeardStep, UploadHeardStep, BulkHeardStep DEF Heard

LEMMA GraphStep == ShapeInv /\ GraphInv /\ [Next]_vars => GraphInv'
<1> SUFFICES ASSUME ShapeInv, GraphInv, [Next]_vars
             PROVE  GraphInv'
  OBVIOUS
<1>0. CASE page # "workGraph"
  <2>1. page' = page
    <3>1. CASE QuietEffect \/ ElsewhereEffect
      BY <3>1 DEF QuietEffect, ElsewhereEffect
    <3>2. ASSUME NEW hs, NEW new, StartEffect(hs, new)
          PROVE  page' = page
      BY <3>2 DEF StartEffect, Going
    <3>3. ASSUME NEW j \in jobs, NEW hs, NEW new, HeardEffect(j, hs, new)
          PROVE  page' = page
      BY <3>3 DEF HeardEffect, Going
    <3>4. ASSUME NEW j \in jobs, NEW m, ServedEffect(j, m)
          PROVE  page' = page
      BY <3>4 DEF ServedEffect
    <3>5. ASSUME NEW j \in jobs, ReadEffect(j)
          PROVE  page' = page
      BY <3>5 DEF ReadEffect
    <3> QED BY <3>1, <3>2, <3>3, <3>4, <3>5, NextSplit
  <2> QED BY <1>0, <2>1 DEF GraphInv
<1>00. CASE page = "workGraph"
  <2>1. \A j : JobFits(j)' <=> JobFits(j)
    BY DEF JobFits, Succeeded
  <2>2. CASE Served
    BY <1>00, <2>2, GraphServed
  <2>3. CASE Heard
    BY <1>00, <2>3, GraphHeard
  <2>4. CASE Look \/ UNCHANGED vars
    <3>1. UNCHANGED <<page, db, jobs, shown>>
      BY <2>4, QuietStep DEF Look, QuietEffect
    <3> QED BY <2>1, <3>1 DEF GraphInv, Graph, TablesFit
  <2>5. CASE Click
    <3>1. PICK f \in Forms : Submit(f)
      BY <1>00, <2>5 DEF Click, StartUpload, StartBulk, BulkOffered
    <3>2. PICK arg \in Args(f) : Starts(f, arg)
      BY <3>1 DEF Submit
    <3>3. PICK m : m = Job(f, arg, acts + 1)
      OBVIOUS
    <3>4. m.op = f /\ m.arg = arg /\ m.stage = "sent"
      BY <3>3, JobMade
    <3>5. f = "addWorkEdge" => arg \in Codes \X Codes
      BY <1>00, <3>2 DEF Args, GraphInv
    <3>6. JobFits(m)
      BY <3>4, <3>5, GraphNames DEF JobFits, Succeeded
    <3>7. jobs' = jobs \cup {m} /\ UNCHANGED <<page, db, shown>>
      BY <3>1, <3>2, <3>3 DEF Starts, Submit
    <3>8. \A j \in jobs' : JobFits(j)'
      BY <1>00, <2>1, <3>6, <3>7 DEF GraphInv
    <3> QED BY <1>00, <3>7, <3>8 DEF GraphInv, Graph, TablesFit
  <2>6. CASE Elsewhere
    <3>1. db["units"] = Codes /\ HooksOf[page] = {"graph", "units"}
      BY <1>00, GraphNames DEF GraphInv, TablesFit
    <3> QED BY <2>6, <3>1 DEF Elsewhere
  <2> QED BY <2>2, <2>3, <2>4, <2>5, <2>6 DEF Next
<1> QED BY <1>0, <1>00

LEMMA InitGraph == Init => GraphInv
<1> SUFFICES ASSUME Init, page = "workGraph"
             PROVE  GraphInv
  BY DEF GraphInv
<1>1. PICK edges \in SeedEdges : MountedWith(GraphUi, Seed(Codes, {}, {}, edges), {"graph"})
  BY DEF Init
<1>2. PICK rows : rows = Seed(Codes, {}, {}, edges)
  OBVIOUS
<1>3. DOMAIN rows = Tables /\ rows["units"] = Codes /\ rows["workEdges"] = edges
  BY <1>2 DEF Seed, NoRows, Tables
<1>4. edges \in Seq(Edges)
  BY SeedAssumption
<1>5. /\ db = rows /\ jobs = {Load(h) : h \in {"graph"}}
      /\ shown = [h \in HooksOf[page] |-> [t \in TablesOf(h) |-> IF h \in {"graph"} THEN NoRows[t] ELSE rows[t]]]
  BY <1>1, <1>2 DEF MountedWith
<1>6. TablesFit(db)
  BY <1>3, <1>4, <1>5 DEF TablesFit
<1>7. /\ shown["units"] = [t \in TablesOf("units") |-> rows[t]]
      /\ shown["graph"] = [t \in TablesOf("graph") |-> NoRows[t]]
  BY <1>5, GraphNames
<1>8. shown["units"].units = Codes
  BY <1>3, <1>7 DEF TablesOf
<1>9. shown["graph"].units = {} /\ shown["graph"].workEdges = <<>>
  BY <1>7 DEF TablesOf, NoRows, Tables
<1>10. \A j \in jobs : JobFits(j)
  <2>1. "graph" \in Hooks
    BY GraphNames, PagesNamed DEF Hooks
  <2> QED BY <1>5, <2>1, LoadFits
<1>11. <<>> \in Seq(Edges)
  OBVIOUS
<1> QED BY <1>6, <1>8, <1>9, <1>10, <1>11 DEF GraphInv, Graph

\* What the canvas draws is a graph of the units.
LEMMA GraphDrawn ==
  ASSUME GraphInv, page = "workGraph", CanvasDrawn
  PROVE  Drawn(Graph)
<1>1. Graph.units = Codes /\ Graph.units # {}
  BY DEF GraphInv, CanvasDrawn
<1>2. PICK edges \in Seq(Edges) : edges = Graph.workEdges
  BY DEF GraphInv
<1>3. Edges \subseteq Codes \X Codes
  BY DEF Edges
<1>4. edges \in Seq(Codes \X Codes)
  BY <1>3
<1>5. \A e \in ToSet(edges) : e[1] # e[2]
  <2>1. ToSet(edges) \subseteq Edges
    BY DEF ToSet
  <2> QED BY <2>1 DEF Edges
<1> QED BY <1>1, <1>2, <1>4, <1>5 DEF Drawn

-----------------------------------------------------------------------------
(* The theorems.                                                           *)

IInv == ShapeInv /\ ReadInv /\ FreshInv /\ DeadButtonWorks /\ OneHandler /\ CandidateInv /\ UploadInv

\* What the proofs of this module rest on holds when a page is mounted, and
\* every step of its visitor, of its handlers, of the routes and of other
\* visitors keeps it.
THEOREM Inductive == Spec => []IInv
<1>1. Init => IInv
  BY InitShape, InitFresh, InitCandidate, InitUpload DEF IInv
<1>2. IInv /\ [Next]_vars => IInv'
  BY ShapeStep, ReadStep, FreshStep, DeadStep, OneHandlerStep, CandidateStep, UploadStep DEF IInv
<1> QED BY <1>1, <1>2, PTL DEF Spec

\* A button that is dead has its request under way: HearForm, HearBulk and the
\* end of HearUpload give back what Submit, StartBulk and StartUpload took,
\* whatever the answer was.
THEOREM DeadButtonWorksAlways == Spec => []DeadButtonWorks
<1>1. IInv => DeadButtonWorks
  BY DEF IInv
<1> QED BY <1>1, Inductive, PTL

\* A page at rest shows what the tables hold, when no request failed and nobody
\* else wrote: for every form of the console, and for the upload and Bulk
\* create, however the handlers and the reads overlap.
THEOREM ReadsItsWritesAlways == Spec => []ReadsItsWrites
<1>1. ASSUME ShapeInv, FreshInv
      PROVE  ReadsItsWrites
  BY <1>1 DEF ReadsItsWrites, AtRest, FreshInv, Fresh
<1> QED BY <1>1, Inductive, PTL DEF IInv

\* Discovery decides a candidate once: after it became a unit it is not a
\* rejected one, when nothing was lost and no two handlers overlapped, though
\* the routes of reject and merge do not look at its status.
THEOREM DecidedOnceAlways == Spec => []DecidedOnce
<1>1. ASSUME ShapeInv, CandidateInv
      PROVE  DecidedOnce
  BY <1>1 DEF DecidedOnce, CandidateInv
<1> QED BY <1>1, Inductive, PTL DEF IInv

\* Every row of a workbook that was gone through is counted once, as created,
\* existing or failed, and what is reported as created or existing is in the
\* table of units, for every workbook and whatever answers were lost.
THEOREM UploadAccountedAlways == Spec => []UploadAccounted
<1>1. ASSUME UploadInv
      PROVE  UploadAccounted
  BY <1>1 DEF UploadAccounted, UploadInv, UploadAt, Counted
<1> QED BY <1>1, Inductive, PTL DEF IInv

\* While something is searched, a change of the list, or of the search, leaves
\* every hit on screen.
THEOREM HitsAreOpenAlways == Spec => HitsAreOpen
<1>1. IInv /\ [Next]_vars
        => [page = "workUnits" /\ ui'.search
             /\ <<ui.search, shown["units"]>>' # <<ui.search, shown["units"]>>
           => LET items == shown'["units"].units IN Unfolded(ui', items) = Filtered(ui', items)]_vars
  BY HitsStep DEF IInv, OpensHits
<1> QED BY <1>1, Inductive, PTL DEF Spec, HitsAreOpen

\* The canvas of the Work Graph is sound, for any order of the nodes, any edges
\* it starts from, and whatever is added to them: no two units at one place, a
\* legend that counts every unit once, and every edge of a forest one column to
\* the right.
THEOREM LayoutSoundAlways == Spec => []LayoutSound
<1>1. Init => GraphInv
  BY InitGraph
<1>2. IInv /\ GraphInv /\ [Next]_vars => GraphInv'
  BY GraphStep DEF IInv
<1>3. ASSUME GraphInv
      PROVE  LayoutSound
  <2> SUFFICES ASSUME page = "workGraph", CanvasDrawn
               PROVE  /\ \A c, d \in Graph.units : Layout(Graph)[c] = Layout(Graph)[d] => c = d
                      /\ Total(Legend(Graph)) = Cardinality(Graph.units)
                      /\ Forest(Graph) => \A e \in ToSet(Graph.workEdges) :
                           Layout(Graph)[e[2]][1] = Layout(Graph)[e[1]][1] + 1
    BY DEF LayoutSound
  <2>1. Drawn(Graph)
    BY <1>3, GraphDrawn
  <2>2. PICK g : g = Graph
    OBVIOUS
  <2>3. \A c, d \in g.units : Layout(g)[c] = Layout(g)[d] => c = d
    BY <2>1, <2>2, PlacesApart
  <2>4. Total(Legend(g)) = Cardinality(g.units)
    BY <2>1, <2>2, LegendCounts
  <2>5. Forest(g) => \A e \in ToSet(g.workEdges) : Layout(g)[e[2]][1] = Layout(g)[e[1]][1] + 1
    BY <2>1, <2>2, EdgesGoRight
  <2> QED BY <2>2, <2>3, <2>4, <2>5
<1> QED BY <1>1, <1>2, <1>3, Inductive, PTL DEF Spec
=============================================================================
