--------------------------- MODULE WorkbenchProofs ---------------------------
(***************************************************************************)
(* Theorems of Workbench for every field, question, unit, file and         *)
(* citation, and every bound.  First five pages, whatever is clicked, lost *)
(* or written by others: on each only its own actions happen, over jobs of *)
(* its own; what the page and its jobs hold of the rows was true when it   *)
(* was read, and the rows go on so that it stays true: a settled row does  *)
(* not change, a confirmed line is not drafted again, files and the audit  *)
(* trail only grow.  Then the Scout interview where whoever clicks waits   *)
(* for every answer and nothing is lost: one request at most is under way, *)
(* over the rows as they are, and what it asks for is not in the grid yet. *)
(* Last, for the same visitors, that the eight pages which show rows show  *)
(* those that are stored, or have a request under way that will tell.      *)
(***************************************************************************)
EXTENDS Workbench, SequenceTheorems, NaturalsInduction, WellFoundedInduction, TLAPS

(* The five pages the theorems are about, and the jobs of each.            *)

SitOps == {"sitUnits", "list", "pointers", "draft", "reread", "cards", "confirm"}
ChroOps == {"seat", "newSeat", "answers", "ws", "ensureWs", "putNext", "putAnchor", "putLine", "draftLine", "confirmLine"}
EvidenceOps == {"claimUnits", "claimFiles", "catalogue", "gaps", "claims"}
DenyOps == {"askUnits", "ask", "upload", "clearCheck"}
HelperOps == {"helperUpload"}

OpsOf == [sitClose |-> SitOps, chro |-> ChroOps, evidence |-> EvidenceOps, deny |-> DenyOps, docCheck |-> HelperOps]

\* The requests of the other pages, and their names.
OtherOps == {"versions", "gqs", "objects", "units", "unit", "index", "ratifyWhole", "ratifyBo", "board", "patch",
             "specUnits", "check", "checks", "create", "session", "replay", "rebuild", "heatmap",
             "contradictions", "resolve", "extract", "preview", "receipts", "createReceipt", "attach",
             "generate"} \cup GridOps \cup StoryOps

OtherPages == {"versions", "genome", "scope", "spec", "newSession", "scout"}

Desks == {"sitClose", "chro", "evidence", "deny", "docCheck"}

FieldsOf == [sitClose |-> DOMAIN SitUi, chro |-> DOMAIN ChroUi(FALSE, FALSE, {}), evidence |-> DOMAIN EvidenceUi,
             deny |-> DOMAIN DenyUi, docCheck |-> DOMAIN HelperUi]

TablesOf == [sitClose |-> {"unit", "pointers", "rows", "column", "humans"},
             chro |-> {"session", "answers", "ws"},
             evidence |-> {"files", "rows", "gaps"},
             deny |-> {"units", "files", "checks"}, docCheck |-> {"units", "files", "checks"}]

JobFields == {"op", "arg", "n", "stage", "code", "body", "live"}

JobShape(j) == DOMAIN j = JobFields

\* On each of the five pages: what is under way is its own, and the fields of
\* its state and the names of its tables are those it began with.
PlaceInv ==
  page \in Desks =>
    /\ \A j \in jobs : JobShape(j) /\ j.op \in OpsOf[page]
    /\ DOMAIN ui = FieldsOf[page]
    /\ DOMAIN db = TablesOf[page]

-----------------------------------------------------------------------------
(* Where the other pages act.                                              *)

LEMMA DesksNamed ==
  /\ DOMAIN OpsOf = Desks
  /\ \A p \in Desks : OpsOf[p] \cap OtherOps = {}
BY DEF OpsOf, Desks, SitOps, ChroOps, EvidenceOps, DenyOps, HelperOps, OtherOps, GridOps, StoryOps

LEMMA OthersServe ==
  ASSUME NEW j, \/ ServeVersions(j) \/ ServeGenome(j) \/ ServeScope(j) \/ ServeSpec(j) \/ ServeCreate(j)
                \/ ServeGrid(j) \/ ServePanels(j)
  PROVE  j.op \in OtherOps /\ page' = page
<1> USE DEF Sent, Serves, OtherOps
<1>1. CASE ServeVersions(j)
  BY <1>1 DEF ServeVersions
<1>2. CASE ServeGenome(j)
  BY <1>2 DEF ServeGenome
<1>3. CASE ServeScope(j)
  BY <1>3 DEF ServeScope
<1>4. CASE ServeSpec(j)
  BY <1>4 DEF ServeSpec
<1>5. CASE ServeCreate(j)
  BY <1>5 DEF ServeCreate
<1>6. CASE ServeGrid(j)
  BY <1>6 DEF ServeGrid
<1>7. CASE ServePanels(j)
  BY <1>7 DEF ServePanels
<1> QED BY <1>1, <1>2, <1>3, <1>4, <1>5, <1>6, <1>7

LEMMA OthersHear ==
  ASSUME NEW j, \/ HearVersions(j) \/ HearGenome(j) \/ HearBoard(j) \/ HearPatch(j) \/ HearSpecUnits(j)
                \/ HearSpec(j) \/ HearCreate(j) \/ HearSession(j) \/ HearGrid(j) \/ HearPanels(j)
  PROVE  j.op \in OtherOps /\ (page' = page \/ page' \in OtherPages)
<1> USE DEF Heard, Hears, OtherOps, OtherPages
<1>1. CASE HearVersions(j)
  BY <1>1 DEF HearVersions
<1>2. CASE HearGenome(j)
  BY <1>2 DEF HearGenome
<1>3. CASE HearBoard(j)
  BY <1>3 DEF HearBoard
<1>4. CASE HearPatch(j)
  BY <1>4 DEF HearPatch
<1>5. CASE HearSpecUnits(j)
  BY <1>5 DEF HearSpecUnits
<1>6. CASE HearSpec(j)
  BY <1>6 DEF HearSpec
<1>7. CASE HearCreate(j)
  BY <1>7 DEF HearCreate
<1>8. CASE HearSession(j)
  BY <1>8 DEF HearSession
<1>9. CASE HearGrid(j)
  BY <1>9 DEF HearGrid
<1>10. CASE HearPanels(j)
  BY <1>10 DEF HearPanels, HearReplay, HearHeatmap, HearContradictions, HearExtract, HearChunk,
     HearPreview, HearReceipts, HearConsent, HearGenerate
<1> QED BY <1>1, <1>2, <1>3, <1>4, <1>5, <1>6, <1>7, <1>8, <1>9, <1>10

LEMMA OthersClick ==
  ASSUME GenomeClick \/ ScopeClick \/ SpecClick \/ ScoutClick \/ PanelsClick \/ Withdraw
  PROVE  page \in OtherPages /\ page' \in OtherPages
<1> USE DEF Clicks, Looks, OtherPages
<1>1. CASE GenomeClick
  BY <1>1 DEF GenomeClick, OpenVersion, ObjectRow, UnitRow, RatifyBo, RatifyWhole, IndexTab, ObjectsTab,
     VersionsKey, GenomeKey, GenomeDrawn
<1>2. CASE ScopeClick
  BY <1>2 DEF ScopeClick, SelectFunction, InScope, TypeOwner, BlurOwner, StartInterview, ScopeKey, GridDrawn
<1>3. CASE SpecClick
  BY <1>3 DEF SpecClick, FillForm, PickUnit, PickType, TypeOver, Check, ListChecks
<1>4. CASE ScoutClick
  BY <1>4 DEF ScoutClick, TypeName, CreateSession, LoadSession, GridClick, AddRow, LoadSamples, FillToHundred,
     EditCell, SaveCell, SessionDrawn
<1>5. CASE PanelsClick
  BY <1>5 DEF PanelsClick, OpenElevation, CloseElevation, Rebuild, Resolve, Extract, AddOne, AddAll, Attach,
     CreateAndAttach, Generate, PanelClick, SessionDrawn
<1>6. CASE Withdraw
  BY <1>6 DEF Withdraw
<1> QED BY <1>1, <1>2, <1>3, <1>4, <1>5, <1>6

\* The actions of the five pages.
SitAct == \/ SitClick \/ SettledElsewhere
          \/ \E j \in jobs : ServeSit(j) \/ HearLive(j) \/ HearConfirm(j)
ChroAct == \/ ChroClick \/ LineElsewhere
           \/ \E j \in jobs : ServeChro(j) \/ HearChro(j)
EvidenceAct == \/ EvidenceClick \/ PointerElsewhere
               \/ \E j \in jobs : ServeEvidence(j) \/ HearEvidence(j)
DeskAct == \/ DeskClick
           \/ \E j \in jobs : ServeDesk(j) \/ HearDesk(j)

Aside == UNCHANGED vars \/ \E j \in jobs : HearAbandoned(j)

LEMMA SitActs ==
  ASSUME SitAct
  PROVE  /\ page' = page
         /\ page = "sitClose" \/ \E j \in jobs : j.op \in SitOps
<1> USE DEF Clicks, Looks, Serves, Hears, Sent, Heard, SitOps
<1>1. CASE SitClick
  BY <1>1 DEF SitClick, SitKey, NameConfirmer, TypeLine, OnConfirm, OnCorrect
<1>2. CASE SettledElsewhere
  BY <1>2 DEF SettledElsewhere
<1>3. CASE \E j \in jobs : ServeSit(j)
  BY <1>3 DEF ServeSit, ServeDraft, ServeConfirm
<1>4. CASE \E j \in jobs : HearLive(j) \/ HearConfirm(j)
  BY <1>4 DEF HearLive, HearSitUnits, HearList, HearPointers, HearDraft, HearCards, HearConfirm
<1> QED BY <1>1, <1>2, <1>3, <1>4 DEF SitAct

LEMMA ChroActs ==
  ASSUME ChroAct
  PROVE  /\ page' = page
         /\ page = "chro" \/ \E j \in jobs : j.op \in ChroOps
<1> USE DEF Clicks, Looks, Serves, Hears, Sent, Heard, ChroOps, AnswersPut, OnChro
<1>1. CASE ChroClick
  BY <1>1 DEF ChroClick, TypeAnswer, GoBack, GoNext, ToggleAnchor, UseLiveDraft, SaveEdit, ConfirmLine,
     ChroKey, SeatKey
<1>2. CASE LineElsewhere
  BY <1>2 DEF LineElsewhere
<1>3. CASE \E j \in jobs : ServeChro(j)
  BY <1>3 DEF ServeChro
<1>4. CASE \E j \in jobs : HearChro(j)
  BY <1>4 DEF HearChro, HearSeat, HearMount, HearPut, HearLine
<1> QED BY <1>1, <1>2, <1>3, <1>4 DEF ChroAct

LEMMA EvidenceActs ==
  ASSUME EvidenceAct
  PROVE  /\ page' = page
         /\ page = "evidence" \/ \E j \in jobs : j.op \in EvidenceOps
<1> USE DEF Clicks, Looks, Serves, Hears, Sent, Heard, EvidenceOps
<1>1. CASE EvidenceClick
  BY <1>1 DEF EvidenceClick
<1>2. CASE PointerElsewhere
  BY <1>2 DEF PointerElsewhere
<1>3. CASE \E j \in jobs : ServeEvidence(j)
  BY <1>3 DEF ServeEvidence
<1>4. CASE \E j \in jobs : HearEvidence(j)
  BY <1>4 DEF HearEvidence, HearPair, HearClaims, HearLists
<1> QED BY <1>1, <1>2, <1>3, <1>4 DEF EvidenceAct

LEMMA DeskActs ==
  ASSUME DeskAct
  PROVE  /\ page' = page
         /\ page \in {"deny", "docCheck"} \/ \E j \in jobs : j.op \in DenyOps \cup HelperOps
<1> USE DEF Clicks, Looks, Serves, Hears, Sent, Heard, DenyOps, HelperOps
<1>1. CASE DeskClick
  BY <1>1 DEF DeskClick, AskWithoutPass, ClearWithEvidence, DeskKey, EditHelperList, UploadVerification
<1>2. CASE \E j \in jobs : ServeDesk(j)
  BY <1>2 DEF ServeDesk
<1>3. CASE \E j \in jobs : HearDesk(j)
  BY <1>3 DEF HearDesk, HearAsk, HearClear, HearUpload
<1> QED BY <1>1, <1>2, <1>3 DEF DeskAct

\* No step leads to one of the five pages, and on each of them only its own
\* actions happen.
LEMMA OwnActs ==
  ASSUME PlaceInv, [Next]_vars, page' \in Desks
  PROVE  /\ page' = page
         /\ \/ Aside
            \/ page = "sitClose" /\ SitAct
            \/ page = "chro" /\ ChroAct
            \/ page = "evidence" /\ EvidenceAct
            \/ page \in {"deny", "docCheck"} /\ DeskAct
<1>0. Desks \cap OtherPages = {}
  BY DEF Desks, OtherPages
<1>1. page \in Desks => \A j \in jobs : j.op \in OpsOf[page] /\ j.op \notin OtherOps
  BY DesksNamed DEF PlaceInv
<1>2. CASE UNCHANGED vars
  BY <1>2 DEF Aside, vars
<1>3. CASE GenomeClick \/ ScopeClick \/ SpecClick \/ ScoutClick \/ PanelsClick \/ Withdraw
  BY <1>0, <1>3, OthersClick
<1>4. CASE \E j \in jobs : \/ ServeVersions(j) \/ ServeGenome(j) \/ ServeScope(j) \/ ServeSpec(j) \/ ServeCreate(j)
                           \/ ServeGrid(j) \/ ServePanels(j)
  BY <1>1, <1>4, OthersServe
<1>5. CASE \E j \in jobs : \/ HearVersions(j) \/ HearGenome(j) \/ HearBoard(j) \/ HearPatch(j) \/ HearSpecUnits(j)
                           \/ HearSpec(j) \/ HearCreate(j) \/ HearSession(j) \/ HearGrid(j) \/ HearPanels(j)
  BY <1>0, <1>1, <1>5, OthersHear
<1>6. CASE \E j \in jobs : HearAbandoned(j)
  BY <1>6 DEF Aside, HearAbandoned
<1>7. CASE SitAct
  BY <1>1, <1>7, SitActs DEF Desks, OpsOf, SitOps, ChroOps, EvidenceOps, DenyOps, HelperOps
<1>8. CASE ChroAct
  BY <1>1, <1>8, ChroActs DEF Desks, OpsOf, SitOps, ChroOps, EvidenceOps, DenyOps, HelperOps
<1>9. CASE EvidenceAct
  BY <1>1, <1>9, EvidenceActs DEF Desks, OpsOf, SitOps, ChroOps, EvidenceOps, DenyOps, HelperOps
<1>10. CASE DeskAct
  BY <1>1, <1>10, DeskActs DEF Desks, OpsOf, SitOps, ChroOps, EvidenceOps, DenyOps, HelperOps
<1>11. CASE Click
  BY <1>3, <1>7, <1>8, <1>9, <1>10, <1>11 DEF Click, SitAct, ChroAct, EvidenceAct, DeskAct
<1>12. CASE Served
  BY <1>4, <1>7, <1>8, <1>9, <1>10, <1>12 DEF Served, SitAct, ChroAct, EvidenceAct, DeskAct
<1>13. CASE Answered
  BY <1>5, <1>6, <1>7, <1>8, <1>9, <1>10, <1>13 DEF Answered, SitAct, ChroAct, EvidenceAct, DeskAct
<1>14. CASE SettledElsewhere \/ LineElsewhere \/ PointerElsewhere
  BY <1>7, <1>8, <1>9, <1>14 DEF SitAct, ChroAct, EvidenceAct
<1> QED BY <1>2, <1>3, <1>11, <1>12, <1>13, <1>14 DEF Next

-----------------------------------------------------------------------------
(* Jobs.                                                                   *)

LEMMA JobMade ==
  \A op, arg, n : LET m == Job(op, arg, n)
                  IN JobShape(m) /\ m.op = op /\ Arg(m) = arg /\ m.stage = "sent"
BY DEF Job, JobShape, JobFields, Arg, Under

\* An answered job is the same job, with its answer or with none.
LEMMA JobAnswered ==
  ASSUME NEW j, JobShape(j), NEW code, NEW body, NEW rows, Answers(j, code, body, rows)
  PROVE  \E m : /\ JobShape(m) /\ m.op = j.op /\ Arg(m) = Arg(j) /\ m.stage = "answered"
                /\ jobs' = (jobs \ {j}) \cup {m}
                /\ \/ m.code = code /\ Body(m) = body /\ db' = rows
                   \/ m.code \in {"lost", "noKey"} /\ db' \in {db, rows}
<1>1. \A c, b : jobs' = AnsweredWith(j, c, b) =>
        \E m : /\ JobShape(m) /\ m.op = j.op /\ Arg(m) = Arg(j) /\ m.stage = "answered"
               /\ jobs' = (jobs \ {j}) \cup {m}
               /\ m.code = c /\ Body(m) = b
  <2> SUFFICES ASSUME NEW c, NEW b, jobs' = AnsweredWith(j, c, b)
               PROVE  \E m : /\ JobShape(m) /\ m.op = j.op /\ Arg(m) = Arg(j) /\ m.stage = "answered"
                             /\ jobs' = (jobs \ {j}) \cup {m}
                             /\ m.code = c /\ Body(m) = b
    OBVIOUS
  <2>1. PICK m : m = [j EXCEPT !.stage = "answered", !.code = c, !.body = Under(j.op, b)]
    OBVIOUS
  <2>2. jobs' = (jobs \ {j}) \cup {m}
    BY <2>1 DEF AnsweredWith
  <2>3. /\ JobShape(m) /\ m.op = j.op /\ Arg(m) = Arg(j) /\ m.stage = "answered"
        /\ m.code = c /\ Body(m) = b
    <3>1. /\ JobShape(m) /\ m.op = j.op /\ m.arg = j.arg /\ m.stage = "answered"
          /\ m.code = c /\ m.body = Under(j.op, b)
      BY <2>1 DEF JobShape, JobFields
    <3> QED BY <3>1 DEF Arg, Body, Under
  <2> QED BY <2>2, <2>3
<1>2. \/ db' = rows /\ jobs' = AnsweredWith(j, code, body)
      \/ db' \in {db, rows} /\ jobs' = AnsweredWith(j, "lost", <<>>)
      \/ db' \in {db, rows} /\ jobs' = AnsweredWith(j, "noKey", <<>>)
  BY DEF Answers
<1> QED BY <1>1, <1>2

Placed(js, ops) == \A j \in js : JobShape(j) /\ j.op \in ops

\* A job that was just sent.
Fresh(m, op, arg) == JobShape(m) /\ m.op = op /\ Arg(m) = arg /\ m.stage = "sent"

LEMMA OneStart ==
  ASSUME NEW op, NEW arg, Starts({<<op, arg>>})
  PROVE  \E m : Fresh(m, op, arg) /\ jobs' = jobs \cup {m}
<1>1. PICK m : m = Job(op, arg, acts + 1)
  OBVIOUS
<1>2. Fresh(m, op, arg)
  BY <1>1, JobMade DEF Fresh
<1>3. jobs' = jobs \cup {Job(r[1], r[2], acts + 1) : r \in {<<op, arg>>}}
  BY DEF Starts
<1>4. jobs' = jobs \cup {m}
  BY <1>1, <1>3
<1> QED BY <1>2, <1>4

LEMMA OneGoesOn ==
  ASSUME NEW j, NEW op, NEW arg, GoesOn(j, op, arg)
  PROVE  \E m : Fresh(m, op, arg) /\ jobs' = (jobs \ {j}) \cup {m}
<1>1. PICK m : m = Job(op, arg, j.n)
  OBVIOUS
<1>2. Fresh(m, op, arg)
  BY <1>1, JobMade DEF Fresh
<1> QED BY <1>1, <1>2 DEF GoesOn

LEMMA OneStartPlaced ==
  ASSUME NEW ops, NEW op \in ops, NEW arg, Starts({<<op, arg>>}), Placed(jobs, ops)
  PROVE  Placed(jobs', ops)
BY OneStart DEF Fresh, Placed

LEMMA GoesOnPlaced ==
  ASSUME NEW ops, NEW j, NEW op \in ops, NEW arg, GoesOn(j, op, arg), Placed(jobs, ops)
  PROVE  Placed(jobs', ops)
BY OneGoesOn DEF Fresh, Placed

LEMMA OverPlaced ==
  ASSUME NEW ops, NEW j, Over(j), Placed(jobs, ops)
  PROVE  Placed(jobs', ops)
BY DEF Over, Placed

LEMMA AnswersPlaced ==
  ASSUME NEW ops, NEW j \in jobs, NEW code, NEW body, NEW rows, Answers(j, code, body, rows), Placed(jobs, ops),
         DOMAIN rows = DOMAIN db
  PROVE  Placed(jobs', ops) /\ DOMAIN db' = DOMAIN db
<1>1. JobShape(j) /\ j.op \in ops
  BY DEF Placed
<1>2. PICK m : /\ JobShape(m) /\ m.op = j.op
               /\ jobs' = (jobs \ {j}) \cup {m}
               /\ db' \in {db, rows}
  BY <1>1, JobAnswered
<1> QED BY <1>1, <1>2 DEF Placed

\* Sit close keeps its place.
LEMMA SitPlaced ==
  ASSUME SitAct, Placed(jobs, SitOps)
  PROVE  Placed(jobs', SitOps) /\ DOMAIN ui' = DOMAIN ui /\ DOMAIN db' = DOMAIN db
<1>0. {"sitUnits", "list", "pointers", "draft", "reread", "cards", "confirm"} \subseteq SitOps
  BY DEF SitOps
<1>1. CASE SitClick
  <2>1. \A op \in SitOps : \A arg : Starts({<<op, arg>>}) => Placed(jobs', SitOps)
    BY OneStartPlaced
  <2>2. CASE SitKey
    BY <2>1, <2>2, <1>0 DEF SitKey, Clicks, LoadLive
  <2>3. CASE NameConfirmer \/ TypeLine
    BY <2>3 DEF NameConfirmer, TypeLine, Looks
  <2>4. CASE OnConfirm
    BY <2>1, <2>4, <1>0 DEF OnConfirm, Clicks
  <2>5. CASE OnCorrect
    <3>1. PICK f \in RowKeys : Starts({<<"confirm", [field |-> f, value |-> ui.lines[f]]>>})
      BY <2>5 DEF OnCorrect
    <3>2. Placed(jobs', SitOps)
      BY <2>1, <3>1, <1>0
    <3> QED BY <2>5, <3>2 DEF OnCorrect, Clicks
  <2> QED BY <1>1, <2>2, <2>3, <2>4, <2>5 DEF SitClick
<1>2. CASE SettledElsewhere
  BY <1>2 DEF SettledElsewhere, SettledWith
<1>3. ASSUME NEW j \in jobs, ServeSit(j)
      PROVE  Placed(jobs', SitOps) /\ DOMAIN ui' = DOMAIN ui /\ DOMAIN db' = DOMAIN db
  <2>1. ui' = ui
    BY <1>3 DEF ServeSit, Serves
  <2>2. \A code, body, rows : Answers(j, code, body, rows) /\ DOMAIN rows = DOMAIN db =>
          Placed(jobs', SitOps) /\ DOMAIN db' = DOMAIN db
    BY AnswersPlaced
  <2>3. CASE ServeDraft(j)
    <3>1. \A f, row : DOMAIN [db EXCEPT !.rows[f] = row] = DOMAIN db
      OBVIOUS
    <3> QED BY <2>1, <2>2, <2>3, <3>1 DEF ServeDraft
  <2>4. CASE ServeConfirm(j)
    <3>1. \A f, value : DOMAIN SettledWith(db, f, value) = DOMAIN db
      BY DEF SettledWith
    <3> QED BY <2>1, <2>2, <2>4, <3>1 DEF ServeConfirm
  <2> QED BY <1>3, <2>1, <2>2, <2>3, <2>4 DEF ServeSit
<1>4. ASSUME NEW j \in jobs, HearLive(j) \/ HearConfirm(j)
      PROVE  Placed(jobs', SitOps) /\ DOMAIN ui' = DOMAIN ui /\ DOMAIN db' = DOMAIN db
  <2>1. Over(j) => Placed(jobs', SitOps)
    BY OverPlaced
  <2>2. \A op \in SitOps : \A arg : GoesOn(j, op, arg) => Placed(jobs', SitOps)
    BY GoesOnPlaced
  <2>3. db' = db
    BY <1>4 DEF HearLive, HearSitUnits, HearList, HearPointers, HearDraft, HearCards, HearConfirm, Hears
  <2>4. ASSUME NEW found, NEW pointers, Ensure(j, found, pointers)
        PROVE  Placed(jobs', SitOps) /\ DOMAIN ui' = DOMAIN ui
    BY <2>2, <2>4, <1>0 DEF Ensure
  <2>5. LoadFailed(j) => Placed(jobs', SitOps) /\ DOMAIN ui' = DOMAIN ui
    BY <2>1 DEF LoadFailed
  <2>6. CASE HearSitUnits(j)
    BY <2>1, <2>2, <2>3, <2>6, <1>0 DEF HearSitUnits
  <2>7. CASE HearList(j)
    BY <2>2, <2>3, <2>5, <2>7, <1>0 DEF HearList
  <2>8. CASE HearPointers(j)
    BY <2>3, <2>4, <2>8 DEF HearPointers
  <2>9. CASE HearDraft(j)
    BY <2>2, <2>3, <2>4, <2>5, <2>9, <1>0 DEF HearDraft
  <2>10. CASE HearCards(j)
    BY <2>1, <2>3, <2>5, <2>10 DEF HearCards
  <2>11. CASE HearConfirm(j)
    <3>1. DOMAIN AfterConfirm(j) = DOMAIN ui
      BY DEF AfterConfirm, ReplaceRow
    <3> QED BY <2>1, <2>3, <2>11, <3>1 DEF HearConfirm
  <2> QED BY <1>4, <2>6, <2>7, <2>8, <2>9, <2>10, <2>11 DEF HearLive
<1> QED BY <1>1, <1>2, <1>3, <1>4 DEF SitAct

\* The sitting keeps its place.
LEMMA LineFields ==
  ASSUME NEW u
  PROVE  DOMAIN WithLine(u) = DOMAIN u
BY DEF WithLine

LEMMA ChroPlaced ==
  ASSUME ChroAct, Placed(jobs, ChroOps)
  PROVE  Placed(jobs', ChroOps) /\ DOMAIN ui' = DOMAIN ui /\ DOMAIN db' = DOMAIN db
<1>0. {"seat", "newSeat", "answers", "ws", "ensureWs", "putNext", "putAnchor", "putLine", "draftLine", "confirmLine"}
        \subseteq ChroOps
  BY DEF ChroOps
<1>1. CASE ChroClick
  <2>0. db' = db
    BY <1>1 DEF ChroClick, TypeAnswer, GoBack, GoNext, ToggleAnchor, UseLiveDraft, SaveEdit, ConfirmLine, ChroKey,
       SeatKey, Looks, Clicks
  <2>1. \A op \in ChroOps : \A arg : Starts({<<op, arg>>}) => Placed(jobs', ChroOps)
    BY OneStartPlaced
  <2>2. CASE TypeAnswer
    <3>1. PICK text \in Sentences \cup {""} : ui' = WithLine([ui EXCEPT !.core[CoreIds[ui.step]] = text])
      BY <2>2 DEF TypeAnswer
    <3>2. DOMAIN ui' = DOMAIN ui
      BY <3>1, LineFields
    <3> QED BY <2>0, <2>2, <3>2 DEF TypeAnswer, Looks
  <2>3. CASE GoBack \/ ChroKey
    BY <2>0, <2>3 DEF GoBack, ChroKey, Looks
  <2>4. CASE GoNext
    <3>1. DOMAIN ui' = DOMAIN ui
      BY <2>4 DEF GoNext
    <3>2. UNCHANGED jobs \/ \E arg : Starts({<<"putNext", arg>>})
      BY <2>4 DEF GoNext
    <3>3. Placed(jobs', ChroOps)
      BY <2>1, <3>2, <1>0
    <3> QED BY <2>0, <3>1, <3>3
  <2>5. CASE ToggleAnchor
    <3>1. \E anchors : ui' = WithLine([ui EXCEPT !.anchors = anchors])
      BY <2>5 DEF ToggleAnchor
    <3>2. DOMAIN ui' = DOMAIN ui
      BY <3>1, LineFields
    <3>3. UNCHANGED jobs \/ \E arg : Starts({<<"putAnchor", arg>>})
      BY <2>5 DEF ToggleAnchor
    <3>4. Placed(jobs', ChroOps)
      BY <2>1, <3>3, <1>0
    <3> QED BY <2>0, <3>2, <3>4
  <2>6. ASSUME NEW sentence, UseAsLine(sentence)
        PROVE  Placed(jobs', ChroOps) /\ DOMAIN ui' = DOMAIN ui
    <3>1. \A u, core : DOMAIN WithLine([u EXCEPT !.core = core]) = DOMAIN u
      BY LineFields
    <3>2. DOMAIN ui' = DOMAIN ui
      BY <2>6, <3>1 DEF UseAsLine
    <3>3. UNCHANGED jobs \/ \E arg : Starts({<<"putLine", arg>>}) \/ Starts({<<"draftLine", arg>>})
                                     \/ Starts({<<"ensureWs", arg>>})
      BY <2>6 DEF UseAsLine, AfterSaving
    <3>4. Placed(jobs', ChroOps)
      BY <2>1, <3>3, <1>0
    <3> QED BY <3>2, <3>4
  <2>7. CASE UseLiveDraft \/ SaveEdit
    BY <2>0, <2>6, <2>7 DEF UseLiveDraft, SaveEdit
  <2>8. CASE ConfirmLine
    <3>1. Placed(jobs', ChroOps)
      BY <2>1, <2>8, <1>0 DEF ConfirmLine
    <3> QED BY <2>0, <2>8, <3>1 DEF ConfirmLine
  <2>9. CASE SeatKey
    <3>1. Placed(jobs', ChroOps)
      BY <2>1, <2>9, <1>0 DEF SeatKey
    <3> QED BY <2>0, <2>9, <3>1 DEF SeatKey
  <2> QED BY <1>1, <2>2, <2>3, <2>4, <2>5, <2>7, <2>8, <2>9 DEF ChroClick
<1>2. CASE LineElsewhere
  BY <1>2 DEF LineElsewhere
<1>3. ASSUME NEW j \in jobs, ServeChro(j)
      PROVE  Placed(jobs', ChroOps) /\ DOMAIN ui' = DOMAIN ui /\ DOMAIN db' = DOMAIN db
  <2>1. ui' = ui
    BY <1>3 DEF ServeChro, Serves
  <2>2. \A code, body, rows : Answers(j, code, body, rows) /\ DOMAIN rows = DOMAIN db =>
          Placed(jobs', ChroOps) /\ DOMAIN db' = DOMAIN db
    BY AnswersPlaced
  <2>3. \E code, body, rows : Answers(j, code, body, rows) /\ DOMAIN rows = DOMAIN db
    <3>1. CASE Sent(j, "seat") /\ Answers(j, "ok", db.session, db)
      BY <3>1
    <3>2. CASE Sent(j, "newSeat") /\ Answers(j, "ok", TRUE, [db EXCEPT !.session = TRUE])
      <4>1. DOMAIN [db EXCEPT !.session = TRUE] = DOMAIN db
        OBVIOUS
      <4> QED BY <3>2, <4>1
    <3>3. CASE Answers(j, "ok", EnsuredWs.ws, EnsuredWs)
      <4>1. DOMAIN EnsuredWs = DOMAIN db
        BY DEF EnsuredWs
      <4> QED BY <3>3, <4>1
    <3>4. CASE Sent(j, "answers") /\ Answers(j, "ok", db.answers, db)
      BY <3>4
    <3>5. CASE Answers(j, "ok", <<>>, [db EXCEPT !.answers = Arg(j).answers])
      BY <3>5
    <3>6. CASE LET rows == [db EXCEPT !.ws.label = Arg(j).sentence]
               IN IF Draftable(Arg(j).sentence) THEN Answers(j, "ok", rows.ws, rows)
                                                ELSE Answers(j, "refused", Nothing, db)
      <4>1. DOMAIN [db EXCEPT !.ws.label = Arg(j).sentence] = DOMAIN db
        OBVIOUS
      <4> QED BY <3>6, <4>1
    <3>7. CASE LET rows == [db EXCEPT !.ws.confirmed = TRUE]
               IN IF db.ws.confirmed THEN Answers(j, "conflict", Nothing, db)
                                     ELSE Answers(j, "ok", rows.ws, rows)
      <4>1. DOMAIN [db EXCEPT !.ws.confirmed = TRUE] = DOMAIN db
        OBVIOUS
      <4> QED BY <3>7, <4>1
    <3> QED BY <1>3, <3>1, <3>2, <3>3, <3>4, <3>5, <3>6, <3>7 DEF ServeChro
  <2> QED BY <2>1, <2>2, <2>3
<1>4. ASSUME NEW j \in jobs, HearChro(j)
      PROVE  Placed(jobs', ChroOps) /\ DOMAIN ui' = DOMAIN ui /\ DOMAIN db' = DOMAIN db
  <2>1. Over(j) => Placed(jobs', ChroOps)
    BY OverPlaced
  <2>2. \A op \in ChroOps : \A arg : GoesOn(j, op, arg) => Placed(jobs', ChroOps)
    BY GoesOnPlaced
  <2>3. db' = db
    BY <1>4 DEF HearChro, HearSeat, HearMount, HearPut, HearLine, Hears
  <2>4. DOMAIN Failed(ui, j) = DOMAIN ui
    BY DEF Failed
  <2>5. CASE HearSeat(j)
    BY <2>1, <2>2, <2>3, <2>5, <1>0 DEF HearSeat
  <2>6. CASE HearMount(j)
    <3>1. DOMAIN ui' = DOMAIN ui
      <4>1. CASE Heard(j, "ws") /\ ui' = IF j.code = "ok" THEN WithLine([ui EXCEPT !.ws = Body(j)]) ELSE ui
        BY <4>1, LineFields
      <4>2. CASE ui' = IF j.code # "ok" THEN Failed(ui, j)
                 ELSE WithLine([ui EXCEPT !.stored = Body(j).core, !.core = MergedCore(ui, Body(j)),
                                          !.anchors = @ \cup Body(j).anchors])
        BY <2>4, <4>2, LineFields
      <4> QED BY <2>6, <4>1, <4>2 DEF HearMount
    <3> QED BY <2>1, <2>3, <2>6, <3>1 DEF HearMount
  <2>7. CASE HearPut(j)
    <3>1. DOMAIN ui' = DOMAIN ui
      BY <2>4, <2>7 DEF HearPut
    <3>2. Over(j) \/ GoesOn(j, AfterSaving(Arg(j))[1], Arg(j))
      BY <2>7 DEF HearPut
    <3>3. AfterSaving(Arg(j))[1] \in ChroOps
      BY <1>0 DEF AfterSaving
    <3> QED BY <2>1, <2>2, <2>3, <3>1, <3>2, <3>3
  <2>8. CASE HearLine(j)
    <3>1. \A ws : DOMAIN WithWs(ws) = DOMAIN ui
      BY LineFields DEF WithWs
    <3>2. DOMAIN ui' = DOMAIN ui
      <4>1. CASE j.code # "ok"
        BY <2>4, <2>8, <4>1 DEF HearLine
      <4>2. CASE j.code = "ok" /\ Heard(j, "ensureWs") /\ ui' = WithLine([ui EXCEPT !.ws = Body(j)])
        BY <4>2, LineFields
      <4>3. CASE ui' = [WithWs(Body(j)) EXCEPT !.needsKey = FALSE] \/ ui' = WithWs(Body(j))
        BY <3>1, <4>3
      <4> QED BY <2>8, <4>1, <4>2, <4>3 DEF HearLine
    <3> QED BY <2>1, <2>2, <2>3, <2>8, <3>2, <1>0 DEF HearLine
  <2> QED BY <1>4, <2>5, <2>6, <2>7, <2>8 DEF HearChro
<1> QED BY <1>1, <1>2, <1>3, <1>4 DEF ChroAct

\* The evidence keeps its place.
LEMMA EvidencePlaced ==
  ASSUME EvidenceAct, Placed(jobs, EvidenceOps)
  PROVE  Placed(jobs', EvidenceOps) /\ DOMAIN ui' = DOMAIN ui /\ DOMAIN db' = DOMAIN db
<1>0. {"claimUnits", "claimFiles", "catalogue", "gaps", "claims"} \subseteq EvidenceOps
  BY DEF EvidenceOps
<1>1. CASE EvidenceClick
  BY <1>1 DEF EvidenceClick, Looks
<1>2. CASE PointerElsewhere
  <2>1. \A u, f, row, gaps : DOMAIN [db EXCEPT !.rows[u][f] = row, !.gaps = gaps] = DOMAIN db
    OBVIOUS
  <2>2. DOMAIN db' = DOMAIN db
    BY <1>2, <2>1 DEF PointerElsewhere
  <2> QED BY <1>2, <2>2 DEF PointerElsewhere
<1>3. ASSUME NEW j \in jobs, ServeEvidence(j)
      PROVE  Placed(jobs', EvidenceOps) /\ DOMAIN ui' = DOMAIN ui /\ DOMAIN db' = DOMAIN db
  <2>1. \E body : Answers(j, "ok", body, db)
    BY <1>3 DEF ServeEvidence
  <2>2. Placed(jobs', EvidenceOps) /\ DOMAIN db' = DOMAIN db
    BY <2>1, AnswersPlaced
  <2> QED BY <1>3, <2>2 DEF ServeEvidence, Serves
<1>4. ASSUME NEW j \in jobs, HearEvidence(j)
      PROVE  Placed(jobs', EvidenceOps) /\ DOMAIN ui' = DOMAIN ui /\ DOMAIN db' = DOMAIN db
  <2>1. Over(j) => Placed(jobs', EvidenceOps)
    BY OverPlaced
  <2>2. \A op \in EvidenceOps : \A arg : GoesOn(j, op, arg) => Placed(jobs', EvidenceOps)
    BY GoesOnPlaced
  <2>3. db' = db
    BY <1>4 DEF HearEvidence, HearPair, HearClaims, HearLists, Hears
  <2>4. ASSUME NEW units, Pooled(j, units)
        PROVE  Placed(jobs', EvidenceOps)
    <3>1. \E now : jobs' = (jobs \ {j}) \cup {Job("claims", units[i], 0) : i \in now}
      BY <2>4 DEF Pooled
    <3>2. \A i : JobShape(Job("claims", units[i], 0)) /\ Job("claims", units[i], 0).op \in EvidenceOps
      BY <1>0, JobMade
    <3> QED BY <3>1, <3>2 DEF Placed
  <2>5. CASE HearPair(j)
    <3>1. DOMAIN ui' = DOMAIN ui
      BY <2>5 DEF HearPair
    <3>2. Over(j) \/ \E units : Pooled(j, units)
      BY <2>5 DEF HearPair
    <3> QED BY <2>1, <2>3, <2>4, <3>1, <3>2
  <2>6. CASE HearClaims(j)
    <3>1. DOMAIN ui' = DOMAIN ui
      BY <2>6 DEF HearClaims
    <3>2. Over(j) \/ GoesOn(j, "claims", Head(ui.queue))
      BY <2>6 DEF HearClaims
    <3> QED BY <2>1, <2>2, <2>3, <3>1, <3>2, <1>0
  <2>7. CASE HearLists(j)
    BY <2>1, <2>3, <2>7 DEF HearLists
  <2> QED BY <1>4, <2>5, <2>6, <2>7 DEF HearEvidence
<1> QED BY <1>1, <1>2, <1>3, <1>4 DEF EvidenceAct

\* So do the two pages that upload.
LEMMA DeskPlaced ==
  ASSUME DeskAct, page \in {"deny", "docCheck"}, Placed(jobs, OpsOf[page])
  PROVE  Placed(jobs', OpsOf[page]) /\ DOMAIN ui' = DOMAIN ui /\ DOMAIN db' = DOMAIN db
<1>0. /\ page = "deny" => OpsOf[page] = {"askUnits", "ask", "upload", "clearCheck"}
      /\ page = "docCheck" => OpsOf[page] = {"helperUpload"}
  BY DEF OpsOf, DenyOps, HelperOps
<1>1. CASE DeskClick
  <2>1. \A op \in OpsOf[page] : \A arg : Starts({<<op, arg>>}) => Placed(jobs', OpsOf[page])
    BY OneStartPlaced
  <2>2. CASE AskWithoutPass
    <3>1. DOMAIN ui' = DOMAIN ui
      BY <2>2 DEF AskWithoutPass
    <3>2. UNCHANGED jobs \/ Starts({<<"askUnits", Nothing>>}) \/ \E arg : Starts({<<"ask", arg>>})
      BY <2>2 DEF AskWithoutPass
    <3>3. page = "deny"
      BY <2>2 DEF AskWithoutPass
    <3>4. Placed(jobs', OpsOf[page])
      BY <2>1, <3>2, <3>3, <1>0
    <3> QED BY <2>2, <3>1, <3>4 DEF AskWithoutPass, Clicks
  <2>3. CASE ClearWithEvidence
    <3>1. Placed(jobs', OpsOf[page])
      BY <2>1, <2>3, <1>0 DEF ClearWithEvidence
    <3> QED BY <2>3, <3>1 DEF ClearWithEvidence, Clicks
  <2>4. CASE DeskKey \/ EditHelperList
    BY <2>4 DEF DeskKey, EditHelperList, Looks
  <2>5. CASE UploadVerification
    <3>1. Placed(jobs', OpsOf[page])
      BY <2>1, <2>5, <1>0 DEF UploadVerification
    <3> QED BY <2>5, <3>1 DEF UploadVerification, Clicks
  <2> QED BY <1>1, <2>2, <2>3, <2>4, <2>5 DEF DeskClick
<1>2. ASSUME NEW j \in jobs, ServeDesk(j)
      PROVE  Placed(jobs', OpsOf[page]) /\ DOMAIN ui' = DOMAIN ui /\ DOMAIN db' = DOMAIN db
  <2>1. \E code, body, rows : Answers(j, code, body, rows) /\ DOMAIN rows = DOMAIN db
    <3>1. CASE Answers(j, "ok", db.units, db)
      BY <3>1
    <3>2. \A row : DOMAIN [db EXCEPT !.checks = Append(@, row)] = DOMAIN db
      OBVIOUS
    <3>3. \A required, ref : Checked(j, required, ref) => \E body, rows : Answers(j, "ok", body, rows) /\ DOMAIN rows = DOMAIN db
      BY <3>2 DEF Checked
    <3>4. DOMAIN [db EXCEPT !.files = @ + 1] = DOMAIN db
      OBVIOUS
    <3> QED BY <1>2, <3>1, <3>3, <3>4 DEF ServeDesk
  <2>2. Placed(jobs', OpsOf[page]) /\ DOMAIN db' = DOMAIN db
    BY <2>1, AnswersPlaced
  <2> QED BY <1>2, <2>2 DEF ServeDesk, Serves
<1>3. ASSUME NEW j \in jobs, HearDesk(j)
      PROVE  Placed(jobs', OpsOf[page]) /\ DOMAIN ui' = DOMAIN ui /\ DOMAIN db' = DOMAIN db
  <2>1. Over(j) => Placed(jobs', OpsOf[page])
    BY OverPlaced
  <2>2. \A op \in OpsOf[page] : \A arg : GoesOn(j, op, arg) => Placed(jobs', OpsOf[page])
    BY GoesOnPlaced
  <2>3. db' = db
    BY <1>3 DEF HearDesk, HearAsk, HearClear, HearUpload, Hears
  <2>4. DOMAIN AskFailed(j) = DOMAIN ui
    BY DEF AskFailed
  <2>5. j.op \in OpsOf[page]
    BY DEF Placed
  <2>6. CASE HearAsk(j)
    BY <2>1, <2>2, <2>3, <2>4, <2>5, <2>6, <1>0 DEF HearAsk, Heard
  <2>7. CASE HearClear(j)
    BY <2>1, <2>2, <2>3, <2>5, <2>7, <1>0 DEF HearClear, Heard
  <2>8. CASE HearUpload(j)
    <3>1. DOMAIN ui' = DOMAIN ui
      BY <2>8 DEF HearUpload
    <3> QED BY <2>1, <2>3, <2>8, <3>1 DEF HearUpload
  <2> QED BY <1>3, <2>6, <2>7, <2>8 DEF HearDesk
<1> QED BY <1>1, <1>2, <1>3 DEF DeskAct

LEMMA AsidePlaced ==
  ASSUME NEW ops, Aside, Placed(jobs, ops)
  PROVE  Placed(jobs', ops) /\ ui' = ui /\ db' = db
BY DEF Aside, HearAbandoned, Placed, vars

LEMMA PlaceStep ==
  ASSUME PlaceInv, [Next]_vars
  PROVE  PlaceInv'
<1> SUFFICES ASSUME page' \in Desks
             PROVE  /\ Placed(jobs', OpsOf[page'])
                    /\ DOMAIN ui' = FieldsOf[page']
                    /\ DOMAIN db' = TablesOf[page']
  BY DEF PlaceInv, Placed, JobShape
<1>1. /\ page' = page
      /\ \/ Aside
         \/ page = "sitClose" /\ SitAct
         \/ page = "chro" /\ ChroAct
         \/ page = "evidence" /\ EvidenceAct
         \/ page \in {"deny", "docCheck"} /\ DeskAct
  BY OwnActs
<1>2. Placed(jobs, OpsOf[page]) /\ DOMAIN ui = FieldsOf[page] /\ DOMAIN db = TablesOf[page]
  BY <1>1 DEF PlaceInv, Placed
<1>3. Placed(jobs', OpsOf[page]) /\ DOMAIN ui' = DOMAIN ui /\ DOMAIN db' = DOMAIN db
  <2>1. CASE Aside
    BY <1>2, <2>1, AsidePlaced
  <2>2. CASE page = "sitClose" /\ SitAct
    <3>1. OpsOf[page] = SitOps
      BY <2>2 DEF OpsOf
    <3> QED BY <1>2, <2>2, <3>1, SitPlaced
  <2>3. CASE page = "chro" /\ ChroAct
    <3>1. OpsOf[page] = ChroOps
      BY <2>3 DEF OpsOf
    <3> QED BY <1>2, <2>3, <3>1, ChroPlaced
  <2>4. CASE page = "evidence" /\ EvidenceAct
    <3>1. OpsOf[page] = EvidenceOps
      BY <2>4 DEF OpsOf
    <3> QED BY <1>2, <2>4, <3>1, EvidencePlaced
  <2>5. CASE page \in {"deny", "docCheck"} /\ DeskAct
    BY <1>2, <2>5, DeskPlaced
  <2> QED BY <1>1, <2>1, <2>2, <2>3, <2>4, <2>5
<1> QED BY <1>1, <1>2, <1>3

-----------------------------------------------------------------------------
(* Sit close.                                                              *)

Got(j) == j.stage = "answered" /\ j.code = "ok"

RowShape(x) == x = [quote |-> x.quote, status |-> x.status, value |-> x.value]

\* What the page knows of the row of f, where rows are stored: a row is there,
\* and one that was settled is the one that is stored.
Known(row, f, rows) == row # Nothing => RowShape(rows[f]) /\ (Settled(row) => rows[f] = row)

KnownRows(found, rows) == DOMAIN found = RowKeys /\ \A f \in RowKeys : Known(found[f], f, rows)

\* What a request carries, and what its answer does.
SitArg(op, arg, rows) ==
  /\ op = "pointers" => KnownRows(arg, rows)
  /\ op \in {"draft", "reread"} => KnownRows(arg.found, rows)
  /\ op = "confirm" => arg.field \in RowKeys /\ RowShape(rows[arg.field])

SitBody(op, arg, body, rows) ==
  /\ op \in {"list", "reread"} => KnownRows(body, rows)
  /\ op \in {"draft", "confirm"} /\ arg.field \in RowKeys => Known(body, arg.field, rows)

SitJob(j, rows) == SitArg(j.op, Arg(j), rows) /\ (Got(j) => SitBody(j.op, Arg(j), Body(j), rows))

SitStored(rows, column) ==
  /\ DOMAIN rows = RowKeys /\ DOMAIN column = RowKeys
  /\ \A f \in RowKeys : rows[f] = Nothing \/ RowShape(rows[f])
  /\ \A f \in RowKeys : Settled(rows[f]) => column[f] = InColumn(f, rows[f].value)

SitSeen(view, rows) == DOMAIN view = RowKeys /\ \A f \in RowKeys : Known(view[f].row, f, rows)

SitInv ==
  page = "sitClose" =>
    /\ SitStored(db.rows, db.column)
    /\ SitSeen(ui.rows, db.rows)
    /\ \A j \in jobs : SitJob(j, db.rows)

\* Rows go on: a settled row never changes, and no row goes away.
RowsGo(rows, next) ==
  /\ \A f \in RowKeys : Settled(rows[f]) => next[f] = rows[f]
  /\ \A f \in RowKeys : RowShape(rows[f]) => RowShape(next[f])

LEMMA StillKnown ==
  ASSUME NEW rows, NEW next, RowsGo(rows, next)
  PROVE  /\ \A row : \A f \in RowKeys : Known(row, f, rows) => Known(row, f, next)
         /\ \A found : KnownRows(found, rows) => KnownRows(found, next)
         /\ \A view : SitSeen(view, rows) => SitSeen(view, next)
         /\ \A op, arg : SitArg(op, arg, rows) => SitArg(op, arg, next)
         /\ \A j : SitJob(j, rows) => SitJob(j, next)
<1>1. \A row : \A f \in RowKeys : Known(row, f, rows) => Known(row, f, next)
  BY DEF RowsGo, Known
<1>2. \A found : KnownRows(found, rows) => KnownRows(found, next)
  BY <1>1 DEF KnownRows
<1>3. \A view : SitSeen(view, rows) => SitSeen(view, next)
  BY <1>1 DEF SitSeen
<1>4. \A op, arg : SitArg(op, arg, rows) => SitArg(op, arg, next)
  BY <1>2 DEF SitArg, RowsGo
<1>5. \A op, arg, body : SitBody(op, arg, body, rows) => SitBody(op, arg, body, next)
  BY <1>1, <1>2 DEF SitBody
<1>6. \A j : SitJob(j, rows) => SitJob(j, next)
  BY <1>4, <1>5 DEF SitJob
<1> QED BY <1>1, <1>2, <1>3, <1>4, <1>6

LEMMA StoredIsKnown ==
  ASSUME NEW rows, NEW column, SitStored(rows, column)
  PROVE  KnownRows(rows, rows)
BY DEF SitStored, KnownRows, Known

\* Settling a row that was not: it is stored with the words of its column.
LEMMA SettlingRows ==
  ASSUME NEW d, {"rows", "column"} \subseteq DOMAIN d, SitStored(d.rows, d.column),
         NEW f \in RowKeys, RowShape(d.rows[f]), ~Settled(d.rows[f]) \/ Writable(d.rows[f]), NEW value
  PROVE  LET s == SettledWith(d, f, value)
         IN /\ SitStored(s.rows, s.column)
            /\ RowsGo(d.rows, s.rows)
            /\ RowShape(s.rows[f])
            /\ \A k \in RowKeys : k # f => s.rows[k] = d.rows[k]
<1>1. PICK status : status = IF value = "draft" THEN "confirmed" ELSE "corrected"
  OBVIOUS
<1>2. PICK rows : rows = [d.rows EXCEPT ![f] = [[@ EXCEPT !.status = status] EXCEPT !.value = value]]
  OBVIOUS
<1>3. PICK column : column = [d.column EXCEPT ![f] = InColumn(f, value)]
  OBVIOUS
<1>4. PICK s : s = SettledWith(d, f, value)
  OBVIOUS
<1>5. s.rows = rows /\ s.column = column
  <2>1. s = [d EXCEPT !.rows[f].status = status, !.rows[f].value = value, !.column[f] = InColumn(f, value)]
    BY <1>1, <1>4 DEF SettledWith
  <2>2. DOMAIN d.rows = RowKeys
    BY DEF SitStored
  <2>3. s.rows = [[d.rows EXCEPT ![f].status = status] EXCEPT ![f].value = value]
    BY <2>1
  <2>4. s.column = [d.column EXCEPT ![f] = InColumn(f, value)]
    BY <2>1
  <2> QED BY <1>2, <1>3, <2>2, <2>3, <2>4
<1>6. DOMAIN rows = RowKeys /\ DOMAIN column = RowKeys
  BY <1>2, <1>3 DEF SitStored
<1>7. \A k \in RowKeys : k # f => rows[k] = d.rows[k] /\ column[k] = d.column[k]
  BY <1>2, <1>3 DEF SitStored
<1>8. rows[f] = [quote |-> d.rows[f].quote, status |-> status, value |-> value]
  BY <1>2 DEF SitStored, RowShape
<1>9. RowShape(rows[f]) /\ rows[f].value = value
  BY <1>8 DEF RowShape
<1>10. column[f] = InColumn(f, rows[f].value)
  BY <1>3, <1>9 DEF SitStored
<1>11. ~Settled(d.rows[f])
  BY DEF Writable, Settled
<1>12. SitStored(rows, column)
  BY <1>6, <1>7, <1>9, <1>10 DEF SitStored
<1>13. RowsGo(d.rows, rows)
  BY <1>7, <1>9, <1>11 DEF RowsGo
<1> QED BY <1>4, <1>5, <1>7, <1>9, <1>12, <1>13

\* One answer of the backend.
LEMMA SitAnswers ==
  ASSUME page = "sitClose", SitInv, NEW j \in jobs, JobShape(j), NEW code, NEW body, NEW rows,
         Answers(j, code, body, rows), UNCHANGED <<page, ui>>,
         SitStored(rows.rows, rows.column), RowsGo(db.rows, rows.rows),
         code = "ok" => SitBody(j.op, Arg(j), body, rows.rows)
  PROVE  SitInv'
<1>1. PICK m : /\ JobShape(m) /\ m.op = j.op /\ Arg(m) = Arg(j) /\ m.stage = "answered"
               /\ jobs' = (jobs \ {j}) \cup {m}
               /\ \/ m.code = code /\ Body(m) = body /\ db' = rows
                  \/ m.code \in {"lost", "noKey"} /\ db' \in {db, rows}
  BY JobAnswered
<1>2. SitStored(db'.rows, db'.column) /\ RowsGo(db.rows, db'.rows)
  <2>1. RowsGo(db.rows, db.rows)
    BY DEF RowsGo
  <2> QED BY <1>1, <2>1 DEF SitInv
<1>3. SitSeen(ui.rows, db'.rows) /\ \A k \in jobs : SitJob(k, db'.rows)
  BY <1>2, StillKnown DEF SitInv
<1>4. SitJob(m, db'.rows)
  <2>1. SitArg(m.op, Arg(m), db'.rows)
    BY <1>1, <1>3 DEF SitJob
  <2>2. Got(m) => SitBody(m.op, Arg(m), Body(m), db'.rows)
    BY <1>1 DEF Got
  <2> QED BY <2>1, <2>2 DEF SitJob
<1>5. \A k \in jobs' : SitJob(k, db'.rows)
  BY <1>1, <1>3, <1>4
<1> QED BY <1>2, <1>3, <1>5 DEF SitInv, SitJob, Got, Arg, Body

\* A step of the page: its rows are drawn from what is known.
LEMMA SitMoves ==
  ASSUME page = "sitClose", SitInv, UNCHANGED <<page, db>>, SitSeen(ui'.rows, db.rows),
         \A k \in jobs' : k \in jobs \/ \E op, arg : Fresh(k, op, arg) /\ SitArg(op, arg, db.rows)
  PROVE  SitInv'
<1>1. ASSUME NEW k \in jobs'
      PROVE  SitJob(k, db.rows)
  <2>1. CASE k \in jobs
    BY <2>1 DEF SitInv
  <2>2. CASE \E op, arg : Fresh(k, op, arg) /\ SitArg(op, arg, db.rows)
    BY <2>2 DEF Fresh, SitJob, Got
  <2> QED BY <1>1, <2>1, <2>2
<1> QED BY <1>1 DEF SitInv, SitJob, Got, Arg, Body

LEMMA SitServes ==
  ASSUME page = "sitClose", SitInv, PlaceInv, NEW j \in jobs, ServeSit(j)
  PROVE  SitInv'
<1>0. /\ JobShape(j) /\ {"rows", "column", "pointers"} \subseteq DOMAIN db
      /\ UNCHANGED <<page, ui>>
      /\ SitStored(db.rows, db.column) /\ SitJob(j, db.rows)
      /\ RowsGo(db.rows, db.rows)
  BY DEF PlaceInv, Desks, TablesOf, SitInv, ServeSit, Serves, RowsGo
<1>1. ASSUME NEW code, NEW body, Answers(j, code, body, db),
             code = "ok" => SitBody(j.op, Arg(j), body, db.rows)
      PROVE  SitInv'
  BY <1>0, <1>1, SitAnswers
<1>2. KnownRows(db.rows, db.rows)
  BY <1>0, StoredIsKnown
<1>3. CASE \/ Sent(j, "sitUnits") /\ Answers(j, "ok", db.unit, db)
           \/ Sent(j, "pointers") /\ Answers(j, "ok", db.pointers, db)
           \/ Sent(j, "cards") /\ Answers(j, "ok", db.humans, db)
  <2>1. \A body : SitBody(j.op, Arg(j), body, db.rows)
    BY <1>3 DEF SitBody, Sent
  <2> QED BY <1>1, <1>3, <2>1
<1>4. CASE (Sent(j, "list") \/ Sent(j, "reread")) /\ Answers(j, "ok", db.rows, db)
  <2>1. SitBody(j.op, Arg(j), db.rows, db.rows)
    BY <1>2, <1>4 DEF SitBody, Sent
  <2> QED BY <1>1, <1>4, <2>1
<1>5. CASE ServeDraft(j)
  <2> DEFINE f == Arg(j).field
             row == Draft(PostedQuote(Arg(j)))
  <2>1. j.op = "draft"
    BY <1>5 DEF ServeDraft, Sent
  <2>2. CASE \E code : code # "ok" /\ Answers(j, code, Nothing, db)
    BY <1>1, <2>2
  <2>3. CASE db.rows[f] # Nothing /\ Answers(j, "ok", db.rows[f], db)
    <3>1. SitBody(j.op, Arg(j), db.rows[f], db.rows)
      BY <1>2, <2>1 DEF SitBody, KnownRows
    <3> QED BY <1>1, <2>3, <3>1
  <2>4. CASE ~Settled(db.rows[f]) /\ db.rows[f] = Nothing /\ Answers(j, "ok", row, [db EXCEPT !.rows[f] = row])
    <3>1. PICK rows : rows = [db EXCEPT !.rows[f] = row]
      OBVIOUS
    <3>2. RowShape(row) /\ ~Settled(row)
      BY DEF RowShape, Draft, Settled
    <3>3. rows.rows = [db.rows EXCEPT ![f] = row] /\ rows.column = db.column
      BY <1>0, <3>1
    <3>4. SitStored(rows.rows, rows.column)
      BY <1>0, <3>2, <3>3 DEF SitStored
    <3>5. RowsGo(db.rows, rows.rows)
      BY <1>0, <2>4, <3>2, <3>3 DEF RowsGo, SitStored
    <3>6. f \in RowKeys => rows.rows[f] = row
      BY <1>0, <3>3 DEF SitStored
    <3>7. SitBody(j.op, Arg(j), row, rows.rows)
      BY <2>1, <3>2, <3>6 DEF SitBody, Known
    <3> QED BY <1>0, <2>4, <3>1, <3>4, <3>5, <3>7, SitAnswers
  <2>5. "conflict" # "ok" /\ "refused" # "ok"
    OBVIOUS
  <2> QED BY <1>5, <2>2, <2>3, <2>4, <2>5 DEF ServeDraft, Settled
<1>6. CASE ServeConfirm(j)
  <2> DEFINE f == Arg(j).field
  <2>1. j.op = "confirm" /\ f \in RowKeys /\ RowShape(db.rows[f])
    BY <1>0, <1>6 DEF ServeConfirm, Sent, SitJob, SitArg
  <2>2. CASE Answers(j, "conflict", Nothing, db)
    BY <1>1, <2>2
  <2>3. PICK rows : rows = SettledWith(db, f, Arg(j).value)
    OBVIOUS
  <2>4. CASE Writable(db.rows[f]) /\ Answers(j, "ok", rows.rows[f], rows)
    <3>1. /\ SitStored(rows.rows, rows.column)
          /\ RowsGo(db.rows, rows.rows)
          /\ RowShape(rows.rows[f])
      BY <1>0, <2>1, <2>3, <2>4, SettlingRows
    <3>2. SitBody(j.op, Arg(j), rows.rows[f], rows.rows)
      BY <2>1, <3>1 DEF SitBody, Known
    <3> QED BY <1>0, <2>4, <3>1, <3>2, SitAnswers
  <2> QED BY <1>6, <2>2, <2>3, <2>4 DEF ServeConfirm
<1> QED BY <1>3, <1>4, <1>5, <1>6 DEF ServeSit

LEMMA SitElsewhere ==
  ASSUME page = "sitClose", SitInv, PlaceInv, SettledElsewhere
  PROVE  SitInv'
<1>0. {"rows", "column"} \subseteq DOMAIN db /\ SitStored(db.rows, db.column)
  BY DEF PlaceInv, Desks, TablesOf, SitInv
<1>1. PICK f \in RowKeys : ~Settled(db.rows[f]) /\ db' = SettledWith([db EXCEPT !.rows[f] = Draft("seed")], f, "theirs")
  BY DEF SettledElsewhere
<1>2. PICK d : d = [db EXCEPT !.rows[f] = Draft("seed")]
  OBVIOUS
<1>3. {"rows", "column"} \subseteq DOMAIN d /\ d.rows = [db.rows EXCEPT ![f] = Draft("seed")] /\ d.column = db.column
  BY <1>0, <1>2
<1>4. RowShape(Draft("seed")) /\ ~Settled(Draft("seed"))
  BY DEF RowShape, Draft, Settled
<1>5. SitStored(d.rows, d.column) /\ d.rows[f] = Draft("seed")
  BY <1>0, <1>3, <1>4 DEF SitStored
<1>6. RowsGo(db.rows, d.rows)
  BY <1>0, <1>1, <1>3, <1>4 DEF RowsGo, SitStored
<1>7. /\ SitStored(db'.rows, db'.column)
      /\ RowsGo(d.rows, db'.rows)
      /\ RowShape(db'.rows[f])
      /\ \A k \in RowKeys : k # f => db'.rows[k] = d.rows[k]
  <2>1. PICK value : value = "theirs"
    OBVIOUS
  <2>2. RowShape(d.rows[f]) /\ ~Settled(d.rows[f])
    BY <1>4, <1>5
  <2>3. LET s == SettledWith(d, f, value)
        IN /\ SitStored(s.rows, s.column)
           /\ RowsGo(d.rows, s.rows)
           /\ RowShape(s.rows[f])
           /\ \A k \in RowKeys : k # f => s.rows[k] = d.rows[k]
    <3>1. f \in RowKeys /\ {"rows", "column"} \subseteq DOMAIN d /\ SitStored(d.rows, d.column)
      BY <1>1, <1>3, <1>5
    <3> QED BY <2>2, <3>1, SettlingRows
  <2>4. db' = SettledWith(d, f, value)
    BY <1>1, <1>2, <2>1
  <2> QED BY <2>3, <2>4
<1>8. RowsGo(db.rows, db'.rows)
  BY <1>1, <1>6, <1>7 DEF RowsGo
<1>9. SitSeen(ui.rows, db'.rows) /\ \A k \in jobs : SitJob(k, db'.rows)
  BY <1>8, StillKnown DEF SitInv
<1>10. UNCHANGED <<page, jobs, ui>>
  BY DEF SettledElsewhere
<1> QED BY <1>7, <1>9, <1>10 DEF SitInv, SitJob, Got, Arg, Body

LEMMA SitClicks ==
  ASSUME page = "sitClose", SitInv, PlaceInv, SitClick
  PROVE  SitInv'
<1>0. DOMAIN ui = DOMAIN SitUi /\ SitSeen(ui.rows, db.rows)
  BY DEF PlaceInv, Desks, FieldsOf, SitInv
<1>1. "rows" \in DOMAIN ui
  BY <1>0 DEF SitUi
<1>2. UNCHANGED <<page, db>> /\ ui'.rows = ui.rows
  <2>1. CASE SitKey
    BY <1>1, <2>1 DEF SitKey, Clicks
  <2>2. CASE NameConfirmer
    BY <1>1, <2>2 DEF NameConfirmer, Looks
  <2>3. CASE TypeLine
    BY <1>1, <2>3 DEF TypeLine, Looks
  <2>4. CASE OnConfirm
    BY <1>1, <2>4 DEF OnConfirm, Clicks
  <2>5. CASE OnCorrect
    BY <1>1, <2>5 DEF OnCorrect, Clicks
  <2> QED BY <2>1, <2>2, <2>3, <2>4, <2>5 DEF SitClick
<1>3. \A k \in jobs' : k \in jobs \/ \E op, arg : Fresh(k, op, arg) /\ SitArg(op, arg, db.rows)
  <2>1. ASSUME NEW op, NEW arg, Starts({<<op, arg>>}), SitArg(op, arg, db.rows)
        PROVE  \A k \in jobs' : k \in jobs \/ \E o, a : Fresh(k, o, a) /\ SitArg(o, a, db.rows)
    BY <2>1, OneStart
  <2>2. CASE SitKey
    <3>1. SitArg("list", Nothing, db.rows)
      BY DEF SitArg
    <3> QED BY <2>1, <2>2, <3>1 DEF SitKey, LoadLive
  <2>3. CASE NameConfirmer \/ TypeLine
    BY <2>3 DEF NameConfirmer, TypeLine, Looks
  <2>4. CASE OnConfirm \/ OnCorrect
    <3>1. PICK f, value : f \in RowKeys /\ CanWrite(f) /\ Starts({<<"confirm", [field |-> f, value |-> value]>>})
      BY <2>4 DEF OnConfirm, OnCorrect
    <3>2. RowShape(db.rows[f])
      BY <1>0, <3>1 DEF CanWrite, SitSeen, Known
    <3>3. SitArg("confirm", [field |-> f, value |-> value], db.rows)
      BY <3>1, <3>2 DEF SitArg
    <3> QED BY <2>1, <3>1, <3>3
  <2> QED BY <2>2, <2>3, <2>4 DEF SitClick
<1> QED BY <1>0, <1>2, <1>3, SitMoves

LEMMA SitHears ==
  ASSUME page = "sitClose", SitInv, PlaceInv, NEW j \in jobs, HearLive(j) \/ HearConfirm(j)
  PROVE  SitInv'
<1>0. DOMAIN ui = DOMAIN SitUi /\ SitSeen(ui.rows, db.rows) /\ SitJob(j, db.rows)
  BY DEF PlaceInv, Desks, FieldsOf, SitInv
<1>1. "rows" \in DOMAIN ui
  BY <1>0 DEF SitUi
<1>2. UNCHANGED <<page, db>>
  BY DEF HearLive, HearSitUnits, HearList, HearPointers, HearDraft, HearCards, HearConfirm, Hears
<1> DEFINE Moved == \A k \in jobs' : k \in jobs \/ \E op, arg : Fresh(k, op, arg) /\ SitArg(op, arg, db.rows)
<1>3. Over(j) => Moved
  BY DEF Over
<1>4. ASSUME NEW op, NEW arg, GoesOn(j, op, arg), SitArg(op, arg, db.rows)
      PROVE  Moved
  BY <1>4, OneGoesOn
<1>5. SitSeen(ui'.rows, db.rows) /\ Moved => SitInv'
  BY <1>2, SitMoves
<1>6. ASSUME ui'.rows = ui.rows
      PROVE  SitSeen(ui'.rows, db.rows)
  BY <1>0, <1>6
<1>7. ASSUME NEW found, NEW pointers, KnownRows(found, db.rows), Ensure(j, found, pointers)
      PROVE  SitInv'
  <2>1. CASE Missing(found) = {}
    <3>1. ui'.rows = Merged(found)
      BY <1>1, <1>7, <2>1 DEF Ensure
    <3>2. SitSeen(Merged(found), db.rows)
      <4>1. DOMAIN Merged(found) = RowKeys
        BY DEF Merged
      <4>2. \A f \in RowKeys : Merged(found)[f].row = found[f]
        BY DEF Merged, SitRow
      <4> QED BY <1>7, <4>1, <4>2 DEF SitSeen, KnownRows
    <3>3. SitArg("cards", Nothing, db.rows)
      BY DEF SitArg
    <3>4. Moved
      BY <1>4, <1>7, <2>1, <3>3 DEF Ensure
    <3> QED BY <1>5, <3>1, <3>2, <3>4
  <2>2. CASE Missing(found) # {}
    <3>1. PICK arg : arg = [field |-> FirstMissing(found), found |-> found, pointers |-> pointers]
      OBVIOUS
    <3>2. SitArg("draft", arg, db.rows)
      BY <1>7, <3>1 DEF SitArg
    <3>3. GoesOn(j, "draft", arg) /\ ui' = ui
      BY <1>7, <2>2, <3>1 DEF Ensure
    <3> QED BY <1>4, <1>5, <1>6, <3>2, <3>3
  <2> QED BY <2>1, <2>2
<1>8. ASSUME LoadFailed(j)
      PROVE  SitInv'
  <2>1. ui'.rows = ui.rows
    BY <1>1, <1>8 DEF LoadFailed
  <2> QED BY <1>3, <1>5, <1>6, <1>8, <2>1 DEF LoadFailed
<1>9. CASE HearSitUnits(j)
  <2>1. ui'.rows = ui.rows
    BY <1>1, <1>9 DEF HearSitUnits
  <2>2. Over(j) \/ GoesOn(j, "list", Nothing)
    BY <1>9 DEF HearSitUnits
  <2>3. SitArg("list", Nothing, db.rows)
    BY DEF SitArg
  <2> QED BY <1>3, <1>4, <1>5, <1>6, <2>1, <2>2, <2>3
<1>10. CASE HearList(j)
  <2>1. CASE j.code = "ok"
    <3>1. KnownRows(Body(j), db.rows)
      BY <1>0, <1>10, <2>1 DEF HearList, Heard, SitJob, SitBody, Got
    <3>2. SitArg("pointers", Body(j), db.rows)
      BY <3>1 DEF SitArg
    <3>3. ui' = ui /\ GoesOn(j, "pointers", Body(j))
      BY <1>10, <2>1 DEF HearList
    <3> QED BY <1>4, <1>5, <1>6, <3>2, <3>3
  <2> QED BY <1>8, <1>10, <2>1 DEF HearList
<1>11. CASE HearPointers(j)
  <2>1. KnownRows(Arg(j), db.rows)
    BY <1>0, <1>11 DEF HearPointers, Heard, SitJob, SitArg
  <2>2. PICK pointers : Ensure(j, Arg(j), pointers)
    BY <1>11 DEF HearPointers
  <2> QED BY <1>7, <2>1, <2>2
<1>12. CASE HearDraft(j)
  <2>0. j.op \in {"draft", "reread"} /\ KnownRows(Arg(j).found, db.rows)
    BY <1>0, <1>12 DEF HearDraft, Heard, SitJob, SitArg
  <2>1. CASE j.op = "draft" /\ j.code = "ok"
    <3>1. PICK found : found = [Arg(j).found EXCEPT ![Arg(j).field] = Body(j)]
      OBVIOUS
    <3>2. Arg(j).field \in RowKeys => Known(Body(j), Arg(j).field, db.rows)
      BY <1>0, <1>12, <2>1 DEF HearDraft, Heard, SitJob, SitBody, Got
    <3>3. KnownRows(found, db.rows)
      BY <2>0, <3>1, <3>2 DEF KnownRows
    <3>4. Ensure(j, found, Arg(j).pointers)
      BY <1>12, <2>1, <3>1 DEF HearDraft, Heard
    <3> QED BY <1>7, <3>3, <3>4
  <2>2. CASE j.op = "draft" /\ j.code = "conflict"
    <3>1. SitArg("reread", Arg(j), db.rows)
      BY <2>0 DEF SitArg
    <3>2. ui' = ui /\ GoesOn(j, "reread", Arg(j))
      BY <1>12, <2>2 DEF HearDraft, Heard
    <3> QED BY <1>4, <1>5, <1>6, <3>1, <3>2
  <2>3. CASE j.op = "reread" /\ j.code = "ok"
    <3>1. PICK found : found = [f \in RowKeys |-> IF Body(j)[f] = Nothing THEN Arg(j).found[f] ELSE Body(j)[f]]
      OBVIOUS
    <3>2. KnownRows(Body(j), db.rows)
      BY <1>0, <1>12, <2>3 DEF HearDraft, Heard, SitJob, SitBody, Got
    <3>3. KnownRows(found, db.rows)
      BY <2>0, <3>1, <3>2 DEF KnownRows
    <3>4. Ensure(j, found, Arg(j).pointers)
      BY <1>12, <2>3, <3>1 DEF HearDraft, Heard
    <3> QED BY <1>7, <3>3, <3>4
  <2>4. CASE LoadFailed(j)
    BY <1>8, <2>4
  <2> QED BY <1>12, <2>0, <2>1, <2>2, <2>3, <2>4 DEF HearDraft, Heard
<1>13. CASE HearCards(j)
  <2>1. CASE j.code = "ok"
    <3>1. ui'.rows = ui.rows /\ Over(j)
      BY <1>1, <1>13, <2>1 DEF HearCards
    <3> QED BY <1>3, <1>5, <1>6, <3>1
  <2> QED BY <1>8, <1>13, <2>1 DEF HearCards
<1>14. CASE HearConfirm(j)
  <2>1. CASE j.code = "ok"
    <3>1. PICK f : f = Arg(j).field
      OBVIOUS
    <3>2. f \in RowKeys /\ Known(Body(j), f, db.rows)
      BY <1>0, <1>14, <2>1, <3>1 DEF HearConfirm, Heard, SitJob, SitArg, SitBody, Got
    <3>3. ui' = ReplaceRow(f, Body(j))
      BY <1>14, <2>1, <3>1 DEF HearConfirm, AfterConfirm
    <3>4. ui'.rows = [ui.rows EXCEPT ![f] = SitRow(Body(j))]
      BY <1>1, <3>3 DEF ReplaceRow
    <3>5. SitRow(Body(j)).row = Body(j)
      BY DEF SitRow
    <3>6. SitSeen(ui'.rows, db.rows)
      BY <1>0, <3>2, <3>4, <3>5 DEF SitSeen
    <3> QED BY <1>3, <1>5, <1>14, <3>6 DEF HearConfirm
  <2>2. CASE j.code # "ok"
    <3>1. ui'.rows = ui.rows
      BY <1>1, <1>14, <2>2 DEF HearConfirm, AfterConfirm
    <3> QED BY <1>3, <1>5, <1>6, <1>14, <3>1 DEF HearConfirm
  <2> QED BY <2>1, <2>2
<1> QED BY <1>9, <1>10, <1>11, <1>12, <1>13, <1>14 DEF HearLive

LEMMA SitStep ==
  ASSUME PlaceInv, SitInv, [Next]_vars
  PROVE  SitInv'
<1> SUFFICES ASSUME page' = "sitClose"
             PROVE  SitInv'
  BY DEF SitInv
<1>1. page' = page /\ (Aside \/ SitAct)
  <2>1. page' \in Desks
    BY DEF Desks
  <2> QED BY <2>1, OwnActs
<1>2. CASE Aside
  <2>1. ui' = ui /\ db' = db /\ jobs' \subseteq jobs
    BY <1>2 DEF Aside, HearAbandoned, vars
  <2> QED BY <1>1, <2>1 DEF SitInv, SitJob, Got, Arg, Body
<1>3. CASE SitAct
  BY <1>1, <1>3, SitServes, SitElsewhere, SitClicks, SitHears DEF SitAct
<1> QED BY <1>1, <1>2, <1>3

-----------------------------------------------------------------------------
(* The sitting.                                                            *)

\* A line that is known as confirmed is the one that is stored.
KnownLine(line, ws) == line.confirmed => ws = line

\* Where a line is drawn as confirmed, it is.
SeenLine(u, ws) ==
  /\ KnownLine(u.ws, ws)
  /\ u.confirmed => ws.confirmed /\ ws.label = u.label

\* No question has its own sample for an answer.
NoSample(core) == \A q \in Core : core[q] # q

\* What the page draws, after u.
Draws(v, u, ws) ==
  /\ v.sample = u.sample
  /\ u.sample => NoSample(v.stored)
  /\ SeenLine(v, ws)

ChroArg(op, arg, u) == op \in AnswersPut /\ u.sample => NoSample(arg.answers.core)

ChroBody(op, body, u, ws) ==
  /\ op \in {"ws", "ensureWs", "draftLine", "confirmLine"} => KnownLine(body, ws)
  /\ op = "answers" /\ u.sample => NoSample(body.core)

ChroJob(j, u, ws) == ChroArg(j.op, Arg(j), u) /\ (Got(j) => ChroBody(j.op, Body(j), u, ws))

ChroInv ==
  page = "chro" =>
    /\ ui.sample => NoSample(db.answers.core)
    /\ Draws(ui, ui, db.ws)
    /\ \A j \in jobs : ChroJob(j, ui, db.ws)

LEMMA ChroFields ==
  ASSUME page = "chro", PlaceInv
  PROVE  /\ {"look", "sample", "step", "session", "ws", "core", "stored", "anchors", "pack", "label",
             "confirmed", "busy", "error", "needsKey", "seatKey"} \subseteq DOMAIN ui
         /\ {"session", "answers", "ws"} \subseteq DOMAIN db
         /\ \A j \in jobs : JobShape(j)
BY DEF PlaceInv, Desks, FieldsOf, TablesOf, ChroUi

LEMMA LineStillKnown ==
  ASSUME NEW u, NEW ws, NEW next, ws.confirmed => next = ws
  PROVE  /\ \A line : KnownLine(line, ws) => KnownLine(line, next)
         /\ \A v : Draws(v, u, ws) => Draws(v, u, next)
         /\ \A op, body : ChroBody(op, body, u, ws) => ChroBody(op, body, u, next)
         /\ \A j : ChroJob(j, u, ws) => ChroJob(j, u, next)
<1>1. \A line : KnownLine(line, ws) => KnownLine(line, next)
  BY DEF KnownLine
<1>2. \A v : Draws(v, u, ws) => Draws(v, u, next)
  BY <1>1 DEF Draws, SeenLine
<1>3. \A op, body : ChroBody(op, body, u, ws) => ChroBody(op, body, u, next)
  BY <1>1 DEF ChroBody
<1>4. \A j : ChroJob(j, u, ws) => ChroJob(j, u, next)
  BY <1>3 DEF ChroJob
<1> QED BY <1>1, <1>2, <1>3, <1>4

\* The effect draws the line that is known.
LEMMA LineDrawn ==
  ASSUME NEW v, NEW u, NEW ws, Draws(v, u, ws), {"ws", "label", "confirmed"} \subseteq DOMAIN v
  PROVE  Draws(WithLine(v), u, ws)
<1>1. CASE WithLine(v) = v
  BY <1>1
<1>2. CASE WithLine(v) # v
  <2>1. PICK w : w = WithLine(v)
    OBVIOUS
  <2>2. w = [v EXCEPT !.label = v.ws.label, !.confirmed = v.ws.confirmed]
    BY <1>2, <2>1 DEF WithLine
  <2>3. w.label = v.ws.label /\ w.confirmed = v.ws.confirmed /\ w.ws = v.ws
    BY <2>2
  <2>4. w.sample = v.sample /\ w.stored = v.stored
    BY <2>2
  <2>5. SeenLine(w, ws)
    BY <2>3 DEF Draws, SeenLine, KnownLine
  <2> QED BY <2>1, <2>4, <2>5 DEF Draws
<1> QED BY <1>1, <1>2

\* What is saved holds no sample.
LEMMA SavesNoSample ==
  ASSUME NEW u, NEW ws, Draws(u, u, ws), NEW core, NEW anchors
  PROVE  u.sample => NoSample(ToSave(u, core, anchors).core)
BY DEF Draws, NoSample, ToSave, Persistable

\* One answer of the backend.
LEMMA ChroAnswers ==
  ASSUME page = "chro", ChroInv, NEW j \in jobs, JobShape(j), NEW code, NEW body, NEW rows,
         Answers(j, code, body, rows), UNCHANGED <<page, ui>>,
         db.ws.confirmed => rows.ws = db.ws, ui.sample => NoSample(rows.answers.core),
         code = "ok" => ChroBody(j.op, body, ui, rows.ws)
  PROVE  ChroInv'
<1>1. PICK m : /\ JobShape(m) /\ m.op = j.op /\ Arg(m) = Arg(j) /\ m.stage = "answered"
               /\ jobs' = (jobs \ {j}) \cup {m}
               /\ \/ m.code = code /\ Body(m) = body /\ db' = rows
                  \/ m.code \in {"lost", "noKey"} /\ db' \in {db, rows}
  BY JobAnswered
<1>2. (db.ws.confirmed => db'.ws = db.ws) /\ (ui.sample => NoSample(db'.answers.core))
  BY <1>1 DEF ChroInv
<1>3. Draws(ui, ui, db'.ws) /\ \A k \in jobs : ChroJob(k, ui, db'.ws)
  BY <1>2, LineStillKnown DEF ChroInv
<1>4. ChroJob(m, ui, db'.ws)
  <2>1. ChroArg(m.op, Arg(m), ui)
    BY <1>1, <1>3 DEF ChroJob
  <2>2. Got(m) => ChroBody(m.op, Body(m), ui, db'.ws)
    BY <1>1 DEF Got
  <2> QED BY <2>1, <2>2 DEF ChroJob
<1>5. \A k \in jobs' : ChroJob(k, ui, db'.ws)
  BY <1>1, <1>3, <1>4
<1> QED BY <1>2, <1>3, <1>5 DEF ChroInv, ChroJob, Got, Arg, Body

\* A step of the page.
LEMMA ChroMoves ==
  ASSUME page = "chro", ChroInv, UNCHANGED <<page, db>>, Draws(ui', ui, db.ws),
         \A k \in jobs' : k \in jobs \/ \E op, arg : Fresh(k, op, arg) /\ ChroArg(op, arg, ui)
  PROVE  ChroInv'
<1>0. ui'.sample = ui.sample
  BY DEF Draws
<1>1. ASSUME NEW k \in jobs'
      PROVE  ChroJob(k, ui, db.ws)
  <2>1. CASE k \in jobs
    BY <2>1 DEF ChroInv
  <2>2. CASE \E op, arg : Fresh(k, op, arg) /\ ChroArg(op, arg, ui)
    BY <2>2 DEF Fresh, ChroJob, Got
  <2> QED BY <1>1, <2>1, <2>2
<1>2. ASSUME NEW u, NEW v, v.sample = u.sample
      PROVE  /\ \A k, ws : ChroJob(k, u, ws) => ChroJob(k, v, ws)
             /\ \A ws : Draws(v, u, ws) => Draws(v, v, ws)
  BY <1>2 DEF ChroJob, ChroArg, ChroBody, Draws
<1>3. \A k \in jobs' : ChroJob(k, ui', db.ws)
  BY <1>0, <1>1, <1>2
<1>4. Draws(ui', ui', db.ws)
  BY <1>0, <1>2
<1>5. ui'.sample => NoSample(db.answers.core)
  BY <1>0 DEF ChroInv
<1> QED BY <1>3, <1>4, <1>5 DEF ChroInv, ChroJob, Got, Arg, Body

LEMMA ChroServes ==
  ASSUME page = "chro", ChroInv, PlaceInv, NEW j \in jobs, ServeChro(j)
  PROVE  ChroInv'
<1>0. /\ JobShape(j) /\ {"session", "answers", "ws"} \subseteq DOMAIN db
      /\ UNCHANGED <<page, ui>>
      /\ ui.sample => NoSample(db.answers.core)
      /\ ChroJob(j, ui, db.ws)
  BY ChroFields DEF ChroInv, ServeChro, Serves
<1>1. \A line : KnownLine(line, line)
  BY DEF KnownLine
<1>2. CASE Sent(j, "seat") /\ Answers(j, "ok", db.session, db)
  <2>1. ChroBody(j.op, db.session, ui, db.ws)
    BY <1>2 DEF ChroBody, Sent
  <2> QED BY <1>0, <1>2, <2>1, ChroAnswers
<1>3. CASE Sent(j, "newSeat") /\ Answers(j, "ok", TRUE, [db EXCEPT !.session = TRUE])
  <2>1. PICK rows : rows = [db EXCEPT !.session = TRUE]
    OBVIOUS
  <2>2. rows.ws = db.ws /\ rows.answers = db.answers
    BY <2>1
  <2>3. PICK body : body = TRUE
    OBVIOUS
  <2>4. ChroBody(j.op, body, ui, rows.ws)
    BY <1>3 DEF ChroBody, Sent
  <2>5. Answers(j, "ok", body, rows)
    BY <1>3, <2>1, <2>3
  <2> QED BY <1>0, <2>2, <2>4, <2>5, ChroAnswers
<1>4. CASE j.op \in {"ws", "ensureWs"} /\ Answers(j, "ok", EnsuredWs.ws, EnsuredWs)
  <2>1. PICK rows : rows = EnsuredWs
    OBVIOUS
  <2>2. rows.answers = db.answers /\ (db.ws.confirmed => rows.ws = db.ws)
    <3>1. db.ws.confirmed => db.ws # NoLine
      <4>1. ~NoLine.confirmed
        BY DEF NoLine, Intent
      <4> QED BY <4>1
    <3>2. rows = db \/ (db.ws = NoLine /\ rows = [db EXCEPT !.ws = Intent("")])
      BY <2>1 DEF EnsuredWs
    <3>3. rows.answers = db.answers
      BY <1>0, <3>2
    <3> QED BY <3>1, <3>2, <3>3
  <2>3. ChroBody(j.op, rows.ws, ui, rows.ws)
    BY <1>1, <1>4 DEF ChroBody
  <2> QED BY <1>0, <1>4, <2>1, <2>2, <2>3, ChroAnswers
<1>5. CASE Sent(j, "answers") /\ Answers(j, "ok", db.answers, db)
  <2>1. ChroBody(j.op, db.answers, ui, db.ws)
    BY <1>0, <1>5 DEF ChroBody, Sent
  <2> QED BY <1>0, <1>5, <2>1, ChroAnswers
<1>6. CASE j.op \in AnswersPut /\ Answers(j, "ok", <<>>, [db EXCEPT !.answers = Arg(j).answers])
  <2>1. PICK rows : rows = [db EXCEPT !.answers = Arg(j).answers]
    OBVIOUS
  <2>2. rows.ws = db.ws /\ rows.answers = Arg(j).answers
    BY <1>0, <2>1
  <2>3. ui.sample => NoSample(rows.answers.core)
    BY <1>0, <1>6, <2>2 DEF ChroJob, ChroArg
  <2>4. ChroBody(j.op, <<>>, ui, rows.ws)
    BY <1>6 DEF ChroBody, AnswersPut
  <2>5. Answers(j, "ok", <<>>, rows)
    BY <1>6, <2>1
  <2> QED BY <1>0, <2>2, <2>3, <2>4, <2>5, ChroAnswers
<1>7. CASE Sent(j, "draftLine") /\ LET rows == [db EXCEPT !.ws.label = Arg(j).sentence]
                                   IN IF Draftable(Arg(j).sentence) THEN Answers(j, "ok", rows.ws, rows)
                                                                    ELSE Answers(j, "refused", Nothing, db)
  <2>1. PICK rows : rows = [db EXCEPT !.ws.label = Arg(j).sentence]
    OBVIOUS
  <2>2. rows.answers = db.answers
    BY <2>1
  <2>3. ChroBody(j.op, rows.ws, ui, rows.ws)
    BY <1>1, <1>7 DEF ChroBody, Sent
  <2>4. CASE Answers(j, "refused", Nothing, db)
    BY <1>0, <2>4, ChroAnswers
  <2>5. CASE ~db.ws.confirmed /\ Answers(j, "ok", rows.ws, rows)
    BY <1>0, <2>2, <2>3, <2>5, ChroAnswers
  <2> QED BY <1>7, <2>1, <2>4, <2>5 DEF Draftable
<1>8. CASE Sent(j, "confirmLine") /\ LET rows == [db EXCEPT !.ws.confirmed = TRUE]
                                     IN IF db.ws.confirmed THEN Answers(j, "conflict", Nothing, db)
                                                           ELSE Answers(j, "ok", rows.ws, rows)
  <2>1. PICK rows : rows = [db EXCEPT !.ws.confirmed = TRUE]
    OBVIOUS
  <2>2. rows.answers = db.answers
    BY <2>1
  <2>3. ChroBody(j.op, rows.ws, ui, rows.ws)
    BY <1>1, <1>8 DEF ChroBody, Sent
  <2>4. CASE Answers(j, "conflict", Nothing, db)
    BY <1>0, <2>4, ChroAnswers
  <2>5. CASE ~db.ws.confirmed /\ Answers(j, "ok", rows.ws, rows)
    BY <1>0, <2>2, <2>3, <2>5, ChroAnswers
  <2> QED BY <1>8, <2>1, <2>4, <2>5
<1> QED BY <1>2, <1>3, <1>4, <1>5, <1>6, <1>7, <1>8 DEF ServeChro

LEMMA ChroElsewhere ==
  ASSUME page = "chro", ChroInv, PlaceInv, LineElsewhere
  PROVE  ChroInv'
<1>1. ~db.ws.confirmed /\ UNCHANGED <<page, jobs, ui>>
  BY DEF LineElsewhere
<1>2. db'.answers = db.answers
  BY ChroFields DEF LineElsewhere
<1>3. Draws(ui, ui, db'.ws) /\ \A k \in jobs : ChroJob(k, ui, db'.ws)
  BY <1>1, LineStillKnown DEF ChroInv
<1> QED BY <1>1, <1>2, <1>3 DEF ChroInv, ChroJob, Got, Arg, Body

LEMMA ChroClicks ==
  ASSUME page = "chro", ChroInv, PlaceInv, ChroClick
  PROVE  ChroInv'
<1>0. /\ {"look", "sample", "step", "session", "ws", "core", "stored", "anchors", "pack", "label",
             "confirmed", "busy", "error", "needsKey", "seatKey"} \subseteq DOMAIN ui
      /\ Draws(ui, ui, db.ws)
  BY ChroFields DEF ChroInv
<1> DEFINE Moved == \A k \in jobs' : k \in jobs \/ \E op, arg : Fresh(k, op, arg) /\ ChroArg(op, arg, ui)
           Same(v) == /\ v.sample = ui.sample /\ v.stored = ui.stored /\ v.ws = ui.ws
                      /\ v.label = ui.label /\ v.confirmed = ui.confirmed
<1>1. ASSUME NEW v, Same(v)
      PROVE  Draws(v, ui, db.ws)
  BY <1>0, <1>1 DEF Draws, SeenLine
<1>2. ASSUME UNCHANGED jobs
      PROVE  Moved
  BY <1>2
<1>3. ASSUME NEW op, NEW arg, Starts({<<op, arg>>}), ChroArg(op, arg, ui)
      PROVE  Moved
  BY <1>3, OneStart
<1>4. \A core, anchors : ui.sample => NoSample(ToSave(ui, core, anchors).core)
  BY <1>0, SavesNoSample
<1>5. Draws(ui', ui, db.ws) /\ Moved /\ UNCHANGED <<page, db>> => ChroInv'
  BY ChroMoves
<1>6. UNCHANGED <<page, db>>
  BY DEF ChroClick, TypeAnswer, GoBack, GoNext, ToggleAnchor, UseLiveDraft, SaveEdit, ConfirmLine, ChroKey,
     SeatKey, Looks, Clicks
<1>7. CASE TypeAnswer
  <2>1. PICK text \in Sentences \cup {""} : ui' = WithLine([ui EXCEPT !.core[CoreIds[ui.step]] = text])
    BY <1>7 DEF TypeAnswer
  <2>2. PICK v : v = [ui EXCEPT !.core[CoreIds[ui.step]] = text]
    OBVIOUS
  <2>3. Same(v) /\ DOMAIN v = DOMAIN ui
    BY <1>0, <2>2
  <2>4. Draws(WithLine(v), ui, db.ws)
    BY <1>0, <1>1, <2>3, LineDrawn
  <2> QED BY <1>2, <1>5, <1>6, <1>7, <2>1, <2>2, <2>4 DEF TypeAnswer, Looks
<1>8. CASE GoBack \/ ChroKey
  <2>1. Same(ui')
    BY <1>0, <1>8 DEF GoBack, ChroKey
  <2> QED BY <1>1, <1>2, <1>5, <1>6, <1>8, <2>1 DEF GoBack, ChroKey, Looks
<1>9. CASE GoNext
  <2>1. Same(ui')
    BY <1>0, <1>9 DEF GoNext
  <2>2. PICK arg : arg = [answers |-> ToSave(ui, ui.core, ui.anchors), step |-> ui.step + 1]
    OBVIOUS
  <2>3. ChroArg("putNext", arg, ui)
    BY <1>4, <2>2 DEF ChroArg
  <2>4. UNCHANGED jobs \/ Starts({<<"putNext", arg>>})
    BY <1>9, <2>2 DEF GoNext
  <2> QED BY <1>1, <1>2, <1>3, <1>5, <1>6, <2>1, <2>3, <2>4
<1>10. CASE ToggleAnchor
  <2>1. PICK anchors : /\ ui' = WithLine([ui EXCEPT !.anchors = anchors])
                       /\ \/ UNCHANGED jobs
                          \/ Starts({<<"putAnchor", [answers |-> ToSave(ui, ui.core, anchors)]>>})
    BY <1>10 DEF ToggleAnchor
  <2>2. PICK v : v = [ui EXCEPT !.anchors = anchors]
    OBVIOUS
  <2>3. Same(v) /\ DOMAIN v = DOMAIN ui
    BY <1>0, <2>2
  <2>4. Draws(WithLine(v), ui, db.ws)
    BY <1>0, <1>1, <2>3, LineDrawn
  <2>5. PICK arg : arg = [answers |-> ToSave(ui, ui.core, anchors)]
    OBVIOUS
  <2>6. ChroArg("putAnchor", arg, ui)
    BY <1>4, <2>5 DEF ChroArg
  <2> QED BY <1>2, <1>3, <1>5, <1>6, <2>1, <2>2, <2>4, <2>5, <2>6
<1>11. ASSUME NEW sentence, UseAsLine(sentence), ~ui.confirmed
       PROVE  ChroInv'
  <2>1. PICK core : core = IF ui.core[ThisPeriod] = "" THEN [ui.core EXCEPT ![ThisPeriod] = sentence] ELSE ui.core
    OBVIOUS
  <2>2. PICK answers : answers = ToSave(ui, core, ui.anchors)
    OBVIOUS
  <2>3. PICK arg : arg = [answers |-> answers, sentence |-> sentence, ws |-> ui.ws # NoLine]
    OBVIOUS
  <2>4. Moved
    <3>1. ChroArg("putLine", arg, ui) /\ ChroArg("draftLine", arg, ui) /\ ChroArg("ensureWs", arg, ui)
      BY <1>4, <2>2, <2>3 DEF ChroArg
    <3>2. UNCHANGED jobs \/ Starts({<<"putLine", arg>>}) \/ Starts({AfterSaving(arg)})
      BY <1>11, <2>1, <2>2, <2>3 DEF UseAsLine
    <3>3. AfterSaving(arg) = <<"draftLine", arg>> \/ AfterSaving(arg) = <<"ensureWs", arg>>
      BY DEF AfterSaving
    <3> QED BY <1>2, <1>3, <3>1, <3>2, <3>3
  <2>5. PICK v : /\ ui' = IF core = ui.core THEN v ELSE WithLine([v EXCEPT !.core = core])
                 /\ \/ v = [[ui EXCEPT !.error = FALSE] EXCEPT !.label = sentence, !.confirmed = FALSE]
                    \/ v = [[ui EXCEPT !.error = FALSE] EXCEPT !.error = TRUE]
                    \/ v = [[ui EXCEPT !.error = FALSE] EXCEPT !.busy = TRUE]
    BY <1>11, <2>1 DEF UseAsLine
  <2>6. DOMAIN v = DOMAIN ui
    BY <2>5
  <2>7. v.sample = ui.sample /\ v.stored = ui.stored /\ v.ws = ui.ws /\ ~v.confirmed
    BY <1>0, <1>11, <2>5
  <2>8. Draws(v, ui, db.ws)
    BY <1>0, <2>7 DEF Draws, SeenLine
  <2>9. Draws([v EXCEPT !.core = core], ui, db.ws)
    <3>1. PICK w : w = [v EXCEPT !.core = core]
      OBVIOUS
    <3>2. w.sample = v.sample /\ w.stored = v.stored /\ w.ws = v.ws /\ w.confirmed = v.confirmed /\ w.label = v.label
      BY <3>1
    <3> QED BY <2>8, <3>1, <3>2 DEF Draws, SeenLine
  <2>10. Draws(WithLine([v EXCEPT !.core = core]), ui, db.ws)
    BY <1>0, <2>6, <2>9, LineDrawn
  <2> QED BY <1>5, <1>6, <2>4, <2>5, <2>8, <2>10
<1>12. CASE UseLiveDraft \/ SaveEdit
  BY <1>11, <1>12 DEF UseLiveDraft, SaveEdit
<1>13. CASE ConfirmLine
  <2>1. Same(ui')
    BY <1>0, <1>13 DEF ConfirmLine
  <2>2. PICK arg : arg = ui.label
    OBVIOUS
  <2>3. ChroArg("confirmLine", arg, ui)
    BY DEF ChroArg, AnswersPut
  <2> QED BY <1>1, <1>3, <1>5, <1>6, <1>13, <2>1, <2>2, <2>3 DEF ConfirmLine
<1>14. CASE SeatKey
  <2>1. ChroArg("seat", Nothing, ui)
    BY DEF ChroArg, AnswersPut
  <2> QED BY <1>0, <1>3, <1>5, <1>6, <1>14, <2>1 DEF SeatKey
<1> QED BY <1>7, <1>8, <1>9, <1>10, <1>12, <1>13, <1>14 DEF ChroClick

LEMMA ChroHears ==
  ASSUME page = "chro", ChroInv, PlaceInv, NEW j \in jobs, HearChro(j)
  PROVE  ChroInv'
<1>0. /\ {"look", "sample", "step", "session", "ws", "core", "stored", "anchors", "pack", "label",
             "confirmed", "busy", "error", "needsKey", "seatKey"} \subseteq DOMAIN ui
      /\ Draws(ui, ui, db.ws)
      /\ ChroJob(j, ui, db.ws)
  BY ChroFields DEF ChroInv
<1> DEFINE Moved == \A k \in jobs' : k \in jobs \/ \E op, arg : Fresh(k, op, arg) /\ ChroArg(op, arg, ui)
           Same(v) == /\ v.sample = ui.sample /\ v.stored = ui.stored /\ v.ws = ui.ws
                      /\ v.label = ui.label /\ v.confirmed = ui.confirmed
<1>1. ASSUME NEW v, Same(v)
      PROVE  Draws(v, ui, db.ws)
  BY <1>0, <1>1 DEF Draws, SeenLine
<1>2. Over(j) => Moved
  BY DEF Over
<1>3. ASSUME NEW op, NEW arg, op \notin AnswersPut, GoesOn(j, op, arg)
      PROVE  Moved
  BY <1>3, OneGoesOn DEF ChroArg
<1>4. UNCHANGED <<page, db>>
  BY DEF HearChro, HearSeat, HearMount, HearPut, HearLine, Hears
<1>5. Draws(ui', ui, db.ws) /\ Moved => ChroInv'
  BY <1>4, ChroMoves
<1>6. \A v : v = Failed(ui, j) \/ v = [Failed(ui, j) EXCEPT !.busy = FALSE] => Same(v)
  BY <1>0 DEF Failed
<1>7. Got(j) => ChroBody(j.op, Body(j), ui, db.ws)
  BY <1>0 DEF ChroJob
<1>8. CASE HearSeat(j)
  <2>1. Same(ui')
    BY <1>0, <1>8 DEF HearSeat
  <2>2. Over(j) \/ GoesOn(j, "answers", Nothing) \/ GoesOn(j, "newSeat", Nothing)
    BY <1>8 DEF HearSeat
  <2>3. "answers" \notin AnswersPut /\ "newSeat" \notin AnswersPut
    BY DEF AnswersPut
  <2> QED BY <1>1, <1>2, <1>3, <1>5, <2>1, <2>2, <2>3
<1>9. CASE HearMount(j)
  <2>1. Moved
    BY <1>2, <1>9 DEF HearMount
  <2>2. CASE ui' = ui \/ ui' = Failed(ui, j)
    BY <1>0, <1>1, <1>5, <1>6, <2>1, <2>2
  <2>3. CASE Heard(j, "ws") /\ j.code = "ok" /\ ui' = WithLine([ui EXCEPT !.ws = Body(j)])
    <3>1. PICK v : v = [ui EXCEPT !.ws = Body(j)]
      OBVIOUS
    <3>2. KnownLine(Body(j), db.ws)
      BY <1>7, <2>3 DEF Heard, Got, ChroBody
    <3>3. /\ v.sample = ui.sample /\ v.stored = ui.stored /\ v.ws = Body(j) /\ v.label = ui.label
          /\ v.confirmed = ui.confirmed /\ DOMAIN v = DOMAIN ui
      BY <1>0, <3>1
    <3>4. Draws(v, ui, db.ws)
      BY <1>0, <3>2, <3>3 DEF Draws, SeenLine
    <3>5. Draws(WithLine(v), ui, db.ws)
      BY <1>0, <3>3, <3>4, LineDrawn
    <3> QED BY <1>5, <2>1, <2>3, <3>1, <3>5
  <2>4. CASE /\ Heard(j, "answers") /\ j.code = "ok"
             /\ ui' = WithLine([ui EXCEPT !.stored = Body(j).core, !.core = MergedCore(ui, Body(j)),
                                          !.anchors = @ \cup Body(j).anchors])
    <3>1. PICK v : v = [ui EXCEPT !.stored = Body(j).core, !.core = MergedCore(ui, Body(j)),
                                  !.anchors = @ \cup Body(j).anchors]
      OBVIOUS
    <3>2. ui.sample => NoSample(Body(j).core)
      BY <1>7, <2>4 DEF Heard, Got, ChroBody
    <3>3. /\ v.sample = ui.sample /\ v.stored = Body(j).core /\ v.ws = ui.ws /\ v.label = ui.label
          /\ v.confirmed = ui.confirmed /\ DOMAIN v = DOMAIN ui
      BY <1>0, <3>1
    <3>4. Draws(v, ui, db.ws)
      BY <1>0, <3>2, <3>3 DEF Draws, SeenLine
    <3>5. Draws(WithLine(v), ui, db.ws)
      BY <1>0, <3>3, <3>4, LineDrawn
    <3> QED BY <1>5, <2>1, <2>4, <3>1, <3>5
  <2> QED BY <1>9, <2>2, <2>3, <2>4 DEF HearMount
<1>10. CASE HearPut(j)
  <2>1. Same(ui')
    <3>1. ui' = ui \/ ui' = [ui EXCEPT !.step = Arg(j).step] \/ ui' = Failed(ui, j)
          \/ ui' = [Failed(ui, j) EXCEPT !.busy = FALSE]
      BY <1>10 DEF HearPut
    <3> QED BY <1>0, <1>6, <3>1
  <2>2. Over(j) \/ GoesOn(j, AfterSaving(Arg(j))[1], Arg(j))
    BY <1>10 DEF HearPut
  <2>3. AfterSaving(Arg(j))[1] \notin AnswersPut
    BY DEF AfterSaving, AnswersPut
  <2> QED BY <1>1, <1>2, <1>3, <1>5, <2>1, <2>2, <2>3
<1>11. CASE HearLine(j)
  <2>1. Moved
    <3>1. "draftLine" \notin AnswersPut
      BY DEF AnswersPut
    <3> QED BY <1>2, <1>3, <1>11, <3>1 DEF HearLine
  <2>2. CASE j.code # "ok"
    BY <1>1, <1>5, <1>6, <1>11, <2>1, <2>2 DEF HearLine
  <2>3. CASE j.code = "ok"
    <3>1. KnownLine(Body(j), db.ws)
      BY <1>7, <1>11, <2>3 DEF HearLine, Heard, Got, ChroBody
    <3>2. CASE ui' = WithLine([ui EXCEPT !.ws = Body(j)])
      <4>1. PICK v : v = [ui EXCEPT !.ws = Body(j)]
        OBVIOUS
      <4>2. /\ v.sample = ui.sample /\ v.stored = ui.stored /\ v.ws = Body(j) /\ v.label = ui.label
            /\ v.confirmed = ui.confirmed /\ DOMAIN v = DOMAIN ui
        BY <1>0, <4>1
      <4>3. Draws(v, ui, db.ws)
        BY <1>0, <3>1, <4>2 DEF Draws, SeenLine
      <4>4. Draws(WithLine(v), ui, db.ws)
        BY <1>0, <4>2, <4>3, LineDrawn
      <4> QED BY <1>5, <2>1, <3>2, <4>1, <4>4
    <3>3. Draws(WithWs(Body(j)), ui, db.ws) /\ DOMAIN WithWs(Body(j)) = DOMAIN ui
      <4>1. PICK v : v = [ui EXCEPT !.ws = Body(j), !.label = Body(j).label, !.confirmed = Body(j).confirmed,
                                    !.busy = FALSE]
        OBVIOUS
      <4>2. /\ v.sample = ui.sample /\ v.stored = ui.stored /\ v.ws = Body(j) /\ v.label = Body(j).label
            /\ v.confirmed = Body(j).confirmed /\ DOMAIN v = DOMAIN ui
        BY <1>0, <4>1
      <4>3. Draws(v, ui, db.ws)
        BY <1>0, <3>1, <4>2 DEF Draws, SeenLine, KnownLine
      <4>4. Draws(WithLine(v), ui, db.ws) /\ DOMAIN WithLine(v) = DOMAIN ui
        BY <1>0, <4>2, <4>3, LineDrawn, LineFields
      <4> QED BY <4>1, <4>4 DEF WithWs
    <3>4. CASE ui' = WithWs(Body(j))
      BY <1>5, <2>1, <3>3, <3>4
    <3>5. CASE ui' = [WithWs(Body(j)) EXCEPT !.needsKey = FALSE]
      <4>1. PICK w : w = WithWs(Body(j))
        OBVIOUS
      <4>2. /\ ui'.sample = w.sample /\ ui'.stored = w.stored /\ ui'.ws = w.ws /\ ui'.label = w.label
            /\ ui'.confirmed = w.confirmed
        BY <3>5, <4>1
      <4>3. Draws(ui', ui, db.ws)
        BY <3>3, <4>1, <4>2 DEF Draws, SeenLine
      <4> QED BY <1>5, <2>1, <4>3
    <3> QED BY <1>11, <2>3, <3>2, <3>4, <3>5 DEF HearLine
  <2> QED BY <2>2, <2>3
<1> QED BY <1>8, <1>9, <1>10, <1>11 DEF HearChro

LEMMA ChroStep ==
  ASSUME PlaceInv, ChroInv, [Next]_vars
  PROVE  ChroInv'
<1> SUFFICES ASSUME page' = "chro"
             PROVE  ChroInv'
  BY DEF ChroInv
<1>1. page' = page /\ (Aside \/ ChroAct)
  <2>1. page' \in Desks
    BY DEF Desks
  <2> QED BY <2>1, OwnActs
<1>2. CASE Aside
  <2>1. ui' = ui /\ db' = db /\ jobs' \subseteq jobs
    BY <1>2 DEF Aside, HearAbandoned, vars
  <2> QED BY <1>1, <2>1 DEF ChroInv, ChroJob, Got, Arg, Body
<1>3. CASE ChroAct
  BY <1>1, <1>3, ChroServes, ChroElsewhere, ChroClicks, ChroHears DEF ChroAct
<1> QED BY <1>1, <1>2, <1>3

-----------------------------------------------------------------------------
(* The evidence.                                                           *)

\* A row that was written as the route writes it, while the files were there.
GoodRow(row, f, files) ==
  row = Nothing \/ /\ row = Pointer(row.requested, row.cites)
                   /\ row.cites.file \in files \cup {Nothing}
                   /\ Stands(f, row.requested, row.cites)

GoodRows(rows, files) == \A f \in Pointerable : GoodRow(rows[f], f, files)

Claimed == ToSet(ClaimUnits)

RowsSeen(view, files) == \A u \in Claimed \cap DOMAIN view : GoodRows(view[u], files)

ClaimsBody(op, arg, body, files) == op = "claims" /\ arg \in Claimed => GoodRows(body, files)

ClaimsJob(j, files) == Got(j) => ClaimsBody(j.op, Arg(j), Body(j), files)

EvidenceInv ==
  page = "evidence" =>
    /\ DOMAIN db.rows = Claimed
    /\ \A u \in Claimed : DOMAIN db.rows[u] = Pointerable /\ GoodRows(db.rows[u], db.files)
    /\ RowsSeen(ui.read, db.files)
    /\ RowsSeen(ui.claims, db.files)
    /\ \A j \in jobs : ClaimsJob(j, db.files)

LEMMA EvidenceFields ==
  ASSUME page = "evidence", PlaceInv
  PROVE  /\ {"units", "files", "queue", "read", "claims", "loading", "error", "needsKey", "catalogue", "gaps"}
              \subseteq DOMAIN ui
         /\ {"files", "rows", "gaps"} \subseteq DOMAIN db
         /\ \A j \in jobs : JobShape(j)
BY DEF PlaceInv, Desks, FieldsOf, TablesOf, EvidenceUi

\* A file that is stored stays.
LEMMA StillGood ==
  ASSUME NEW files, NEW more, files \subseteq more
  PROVE  /\ \A row, f : GoodRow(row, f, files) => GoodRow(row, f, more)
         /\ \A rows : GoodRows(rows, files) => GoodRows(rows, more)
         /\ \A view : RowsSeen(view, files) => RowsSeen(view, more)
         /\ \A j : ClaimsJob(j, files) => ClaimsJob(j, more)
<1>1. \A row, f : GoodRow(row, f, files) => GoodRow(row, f, more)
  BY DEF GoodRow
<1>2. \A rows : GoodRows(rows, files) => GoodRows(rows, more)
  BY <1>1 DEF GoodRows
<1>3. \A view : RowsSeen(view, files) => RowsSeen(view, more)
  BY <1>2 DEF RowsSeen
<1>4. \A j : ClaimsJob(j, files) => ClaimsJob(j, more)
  BY <1>2 DEF ClaimsJob, ClaimsBody
<1> QED BY <1>1, <1>2, <1>3, <1>4

LEMMA EvidenceElsewhere ==
  ASSUME page = "evidence", EvidenceInv, PlaceInv, PointerElsewhere
  PROVE  EvidenceInv'
<1>0. UNCHANGED <<page, jobs, ui>> /\ {"files", "rows", "gaps"} \subseteq DOMAIN db
  BY EvidenceFields DEF PointerElsewhere
<1>1. CASE \E file \in Files \ db.files : db' = [db EXCEPT !.files = @ \cup {file}]
  <2>1. db.files \subseteq db'.files /\ db'.rows = db.rows
    BY <1>0, <1>1
  <2>2. /\ \A rows : GoodRows(rows, db.files) => GoodRows(rows, db'.files)
        /\ \A view : RowsSeen(view, db.files) => RowsSeen(view, db'.files)
        /\ \A j : ClaimsJob(j, db.files) => ClaimsJob(j, db'.files)
    BY <2>1, StillGood
  <2> QED BY <1>0, <2>1, <2>2 DEF EvidenceInv, ClaimsJob, Got, Arg, Body
<1>2. ASSUME NEW u \in Claimed, NEW f \in Pointerable, NEW requested \in Requested, NEW c \in Citations,
             c.file \in db.files \cup {Nothing}, Stands(f, requested, c),
             db' = [db EXCEPT !.rows[u][f] = Pointer(requested, c),
                              !.gaps = IF Pointer(requested, c).status = requested THEN @ ELSE @ + 1]
      PROVE  EvidenceInv'
  <2>1. PICK gaps : db' = [db EXCEPT !.rows[u][f] = Pointer(requested, c), !.gaps = gaps]
    BY <1>2
  <2>2. PICK row : row = Pointer(requested, c)
    OBVIOUS
  <2>3. row.requested = requested /\ row.cites = c
    BY <2>2 DEF Pointer
  <2>4. GoodRow(row, f, db.files)
    BY <1>2, <2>2, <2>3 DEF GoodRow
  <2>5. db'.files = db.files /\ db'.rows = [db.rows EXCEPT ![u][f] = row]
    BY <1>0, <2>1, <2>2
  <2>6. DOMAIN db.rows = Claimed /\ \A x \in Claimed : DOMAIN db.rows[x] = Pointerable /\ GoodRows(db.rows[x], db.files)
    BY DEF EvidenceInv
  <2>7. DOMAIN db'.rows = Claimed
    BY <2>5, <2>6
  <2>8. \A x \in Claimed : DOMAIN db'.rows[x] = Pointerable /\ GoodRows(db'.rows[x], db.files)
    BY <2>4, <2>5, <2>6 DEF GoodRows
  <2> QED BY <1>0, <2>5, <2>7, <2>8 DEF EvidenceInv, ClaimsJob, Got, Arg, Body
<1> QED BY <1>1, <1>2 DEF PointerElsewhere, Claimed

LEMMA EvidenceServes ==
  ASSUME page = "evidence", EvidenceInv, PlaceInv, NEW j \in jobs, ServeEvidence(j)
  PROVE  EvidenceInv'
<1>0. JobShape(j) /\ UNCHANGED <<page, ui>>
  BY EvidenceFields DEF ServeEvidence, Serves
<1>1. PICK body : /\ Answers(j, "ok", body, db)
                  /\ j.op = "claims" => body = db.rows[Arg(j)]
  BY DEF ServeEvidence, Sent
<1>2. PICK m : /\ JobShape(m) /\ m.op = j.op /\ Arg(m) = Arg(j) /\ m.stage = "answered"
               /\ jobs' = (jobs \ {j}) \cup {m}
               /\ \/ m.code = "ok" /\ Body(m) = body /\ db' = db
                  \/ m.code \in {"lost", "noKey"} /\ db' \in {db, db}
  BY <1>0, <1>1, JobAnswered
<1>3. ClaimsJob(m, db.files)
  BY <1>1, <1>2 DEF ClaimsJob, ClaimsBody, Got, EvidenceInv
<1>4. db' = db
  BY <1>2
<1> QED BY <1>0, <1>2, <1>3, <1>4 DEF EvidenceInv, ClaimsJob, Got, Arg, Body

LEMMA EvidenceHears ==
  ASSUME page = "evidence", EvidenceInv, PlaceInv, NEW j \in jobs, HearEvidence(j)
  PROVE  EvidenceInv'
<1>0. /\ {"units", "files", "queue", "read", "claims", "loading", "error", "needsKey", "catalogue", "gaps"}
           \subseteq DOMAIN ui
      /\ RowsSeen(ui.read, db.files) /\ RowsSeen(ui.claims, db.files)
      /\ UNCHANGED <<page, db>>
  BY EvidenceFields DEF EvidenceInv, HearEvidence, HearPair, HearClaims, HearLists, Hears
<1> DEFINE Moved == \A k \in jobs' : k \in jobs \/ \E op, arg : Fresh(k, op, arg)
<1>1. ASSUME RowsSeen(ui'.read, db.files), RowsSeen(ui'.claims, db.files), Moved
      PROVE  EvidenceInv'
  <2>1. ASSUME NEW k \in jobs'
        PROVE  ClaimsJob(k, db.files)
    <3>1. CASE k \in jobs
      BY <3>1 DEF EvidenceInv
    <3>2. CASE \E op, arg : Fresh(k, op, arg)
      BY <3>2 DEF Fresh, ClaimsJob, Got
    <3> QED BY <1>1, <2>1, <3>1, <3>2
  <2> QED BY <1>0, <1>1, <2>1 DEF EvidenceInv, ClaimsJob, Got, Arg, Body
<1>2. Over(j) => Moved
  BY DEF Over
<1>3. \A op, arg : GoesOn(j, op, arg) => Moved
  BY OneGoesOn
<1>4. CASE HearPair(j)
  <2>1. ui'.read = ui.read /\ ui'.claims = ui.claims
    BY <1>0, <1>4 DEF HearPair
  <2>2. ASSUME NEW units, Pooled(j, units)
        PROVE  Moved
    <3>1. \E now : jobs' = (jobs \ {j}) \cup {Job("claims", units[i], 0) : i \in now}
      BY <2>2 DEF Pooled
    <3>2. \A i : Fresh(Job("claims", units[i], 0), "claims", units[i])
      BY JobMade DEF Fresh
    <3> QED BY <3>1, <3>2
  <2>3. Over(j) \/ \E units : Pooled(j, units)
    BY <1>4 DEF HearPair
  <2> QED BY <1>0, <1>1, <1>2, <2>1, <2>2, <2>3
<1>5. CASE HearClaims(j)
  <2>1. PICK rows : rows = IF j.code = "ok" THEN Body(j) ELSE NoPointers
    OBVIOUS
  <2>2. PICK read : read = [u \in DOMAIN ui.read \cup {Arg(j)} |->
                              IF u = Arg(j) THEN (IF j.code = "ok" THEN Body(j) ELSE NoPointers) ELSE ui.read[u]]
    OBVIOUS
  <2>3. Arg(j) \in Claimed => GoodRows(rows, db.files)
    <3>1. CASE j.code = "ok"
      BY <1>5, <2>1, <3>1 DEF HearClaims, Heard, EvidenceInv, ClaimsJob, ClaimsBody, Got
    <3>2. CASE j.code # "ok"
      BY <2>1, <3>2 DEF NoPointers, GoodRows, GoodRow
    <3> QED BY <3>1, <3>2
  <2>4. RowsSeen(read, db.files)
    BY <1>0, <2>1, <2>2, <2>3 DEF RowsSeen
  <2>5. ui'.read = read /\ ui'.claims \in {ui.claims, read}
    <3>1. \/ ui' = [ui EXCEPT !.read = read, !.queue = Tail(@)]
          \/ ui' = [ui EXCEPT !.read = read, !.claims = read, !.loading = FALSE]
          \/ ui' = [ui EXCEPT !.read = read]
      BY <1>5, <2>2 DEF HearClaims
    <3> QED BY <1>0, <3>1
  <2>6. Over(j) \/ GoesOn(j, "claims", Head(ui.queue))
    BY <1>5 DEF HearClaims
  <2> QED BY <1>0, <1>1, <1>2, <1>3, <2>4, <2>5, <2>6
<1>6. CASE HearLists(j)
  <2>1. ui'.read = ui.read /\ ui'.claims = ui.claims /\ Over(j)
    BY <1>0, <1>6 DEF HearLists
  <2> QED BY <1>0, <1>1, <1>2, <2>1
<1> QED BY <1>4, <1>5, <1>6 DEF HearEvidence

LEMMA EvidenceStep ==
  ASSUME PlaceInv, EvidenceInv, [Next]_vars
  PROVE  EvidenceInv'
<1> SUFFICES ASSUME page' = "evidence"
             PROVE  EvidenceInv'
  BY DEF EvidenceInv
<1>1. page' = page /\ (Aside \/ EvidenceAct)
  <2>1. page' \in Desks
    BY DEF Desks
  <2> QED BY <2>1, OwnActs
<1>2. ASSUME ui'.read = ui.read, ui'.claims = ui.claims, db' = db, jobs' \subseteq jobs
      PROVE  EvidenceInv'
  BY <1>1, <1>2 DEF EvidenceInv, ClaimsJob, Got, Arg, Body
<1>3. CASE Aside
  BY <1>2, <1>3 DEF Aside, HearAbandoned, vars
<1>4. CASE EvidenceClick
  <2>1. ui'.read = ui.read /\ ui'.claims = ui.claims
    BY <1>1, <1>4, EvidenceFields DEF EvidenceClick
  <2> QED BY <1>2, <1>4, <2>1 DEF EvidenceClick, Looks
<1>5. CASE EvidenceAct
  BY <1>1, <1>4, <1>5, EvidenceServes, EvidenceElsewhere, EvidenceHears DEF EvidenceAct
<1> QED BY <1>1, <1>3, <1>5

\* What is drawn as a fact was resolved, and binding words were verified.
FactOpens(c, f) ==
  LET paged == c.file \in Pdfs /\ c.page # "none"
  IN /\ c.file \in db.files \ (Empty \cup Foreign)
     /\ c.file \in Sheets => c.cell = "inside"
     /\ paged => c.page = "inside"
     /\ c.file \in Sheets \/ paged => c.file \notin Broken /\ c.words # "other"
     /\ c.file \in Sheets \/ paged \/ {c.page, c.line, c.cell} = {"none"}
     /\ f \in Binding => (c.file \in Sheets \/ paged) /\ c.words = "there"

LEMMA GoodFact ==
  ASSUME page = "evidence", EvidenceInv, NEW u \in ToSet(ClaimUnits), NEW f \in Pointerable, FactDrawn(u, f),
         NEW c, c = ui.claims[u][f].cites
  PROVE  FactOpens(c, f)
<1> DEFINE paged == c.file \in Pdfs /\ c.page # "none"
<1>1. PICK row : row = ui.claims[u][f]
  OBVIOUS
<1>2. row # Nothing /\ row.resolved /\ c = row.cites
  BY <1>1 DEF FactDrawn, ClaimDrawn, IsFact
<1>3. GoodRow(row, f, db.files)
  BY <1>1 DEF EvidenceInv, RowsSeen, GoodRows, Claimed, FactDrawn, ClaimDrawn
<1>4. row = Pointer(row.requested, c) /\ c.file \in db.files \cup {Nothing} /\ Stands(f, row.requested, c)
  BY <1>2, <1>3 DEF GoodRow
<1>5. Resolved(c)
  BY <1>2, <1>4 DEF Pointer
<1>6. ReadAt(c) <=> (c.file \in Sheets \/ paged)
  BY DEF ReadAt
<1>7. c.file \in db.files \ (Empty \cup Foreign)
  BY <1>4, <1>5 DEF Resolved
<1>8. CASE ReadAt(c)
  <2>1. c.file \notin Broken /\ PlaceRead(c) = "inside" /\ c.words # "other"
    BY <1>5, <1>8 DEF Resolved
  <2>2. c.file \in Sheets => c.cell = "inside"
    BY <2>1 DEF PlaceRead
  <2>3. paged => c.page = "inside"
    BY <2>1, EvidenceAssumption DEF PlaceRead
  <2>4. f \in Binding => c.words = "there"
    BY <1>4 DEF Stands, Verified
  <2> QED BY <1>6, <1>7, <1>8, <2>1, <2>2, <2>3, <2>4 DEF FactOpens
<1>9. CASE ~ReadAt(c)
  <2>1. c.page = "none" /\ c.line = "none" /\ c.cell = "none"
    BY <1>5, <1>9 DEF Resolved
  <2>2. f \notin Binding
    BY <1>4, <1>9 DEF Stands, Verified
  <2> QED BY <1>6, <1>7, <1>9, <2>1, <2>2 DEF FactOpens
<1> QED BY <1>8, <1>9

LEMMA GoodFacts ==
  ASSUME page = "evidence", EvidenceInv
  PROVE  FactsOpen
<1>1. ASSUME NEW u \in ToSet(ClaimUnits), NEW f \in Pointerable, FactDrawn(u, f)
      PROVE  FactOpens(ui.claims[u][f].cites, f)
  BY <1>1, GoodFact
<1> QED BY <1>1, Zenon DEF FactsOpen, FactOpens

-----------------------------------------------------------------------------
(* Spec deny, and the document check.                                      *)

WasDenied(checks) == \E i \in DOMAIN checks : checks[i] = [ref |-> FALSE, result |-> "denied"]

WasCleared(checks) ==
  \E i, k \in DOMAIN checks : /\ i < k
                              /\ checks[i] = [ref |-> FALSE, result |-> "denied"]
                              /\ checks[k] = [ref |-> TRUE, result |-> "allowed"]

\* What the page draws of its two answers is in the audit trail.
DenySeen(u, files, checks) ==
  /\ u.check = "denied" => WasDenied(checks)
  /\ u.cleared # Nothing => u.cleared = "allowed" /\ u.evidence /\ files > 0 /\ WasCleared(checks)

DenyArg(op, u, files, checks) ==
  /\ op \in {"upload", "clearCheck"} => WasDenied(checks)
  /\ op = "clearCheck" => u.evidence /\ files > 0

DenyBody(op, body, files, checks) ==
  /\ op = "ask" /\ body = "denied" => WasDenied(checks)
  /\ op = "upload" => files > 0
  /\ op = "clearCheck" => body = "allowed" /\ WasCleared(checks)

DenyJob(j, u, files, checks) == /\ DenyArg(j.op, u, files, checks)
                                /\ Got(j) => DenyBody(j.op, Body(j), files, checks)

IsTrail(checks) == \E S : checks \in Seq(S)

DenyInv ==
  page = "deny" =>
    /\ db.files \in Nat /\ IsTrail(db.checks)
    /\ DenySeen(ui, db.files, db.checks)
    /\ \A j \in jobs : DenyJob(j, ui, db.files, db.checks)

HelperInv ==
  page = "docCheck" =>
    /\ db.files \in Nat
    /\ ui.uploaded => db.files > 0
    /\ \A j \in jobs : Got(j) => db.files > 0

LEMMA DenyFields ==
  ASSUME page = "deny", PlaceInv
  PROVE  /\ {"units", "check", "busy", "needsKey", "error", "evidence", "cleared", "clearing", "clearError"}
              \subseteq DOMAIN ui
         /\ {"units", "files", "checks"} \subseteq DOMAIN db
         /\ \A j \in jobs : JobShape(j) /\ j.op \in {"askUnits", "ask", "upload", "clearCheck"}
BY DEF PlaceInv, Desks, FieldsOf, TablesOf, DenyUi, OpsOf, DenyOps

LEMMA HelperFields ==
  ASSUME page = "docCheck", PlaceInv
  PROVE  /\ {"items", "uploaded", "uploading", "needsKey", "error"} \subseteq DOMAIN ui
         /\ {"units", "files", "checks"} \subseteq DOMAIN db
         /\ \A j \in jobs : JobShape(j) /\ j.op = "helperUpload"
BY DEF PlaceInv, Desks, FieldsOf, TablesOf, HelperUi, OpsOf, HelperOps

\* The trail only grows at its end.
LEMMA TrailGrows ==
  ASSUME NEW checks, IsTrail(checks), NEW row, NEW next, next = Append(checks, row)
  PROVE  /\ IsTrail(next)
         /\ WasDenied(checks) => WasDenied(next)
         /\ WasCleared(checks) => WasCleared(next)
         /\ row = [ref |-> FALSE, result |-> "denied"] => WasDenied(next)
         /\ row = [ref |-> TRUE, result |-> "allowed"] /\ WasDenied(checks) => WasCleared(next)
<1>1. PICK S : checks \in Seq(S)
  BY DEF IsTrail
<1>2. PICK T : T = S \cup {row}
  OBVIOUS
<1>3. checks \in Seq(T) /\ row \in T
  BY <1>1, <1>2
<1>4. next \in Seq(T) /\ DOMAIN next = 1 .. Len(checks) + 1 /\ DOMAIN checks = 1 .. Len(checks) /\ Len(checks) \in Nat
  BY <1>3
<1>5. next[Len(checks) + 1] = row /\ \A i \in DOMAIN checks : next[i] = checks[i]
  BY <1>3
<1>6. PICK n \in Nat : n = Len(checks)
  BY <1>4
<1>7. \A i \in DOMAIN checks : i \in DOMAIN next /\ next[i] = checks[i] /\ i < n + 1
  BY <1>4, <1>5, <1>6
<1>8. n + 1 \in DOMAIN next /\ next[n + 1] = row
  BY <1>4, <1>5, <1>6
<1>9. IsTrail(next)
  BY <1>4 DEF IsTrail
<1> QED BY <1>7, <1>8, <1>9 DEF WasDenied, WasCleared

\* What was so stays so.
LEMMA DenyStays ==
  ASSUME NEW u, NEW v, NEW files, NEW more, NEW checks, NEW next,
         u.evidence => v.evidence, files > 0 => more > 0,
         WasDenied(checks) => WasDenied(next), WasCleared(checks) => WasCleared(next)
  PROVE  /\ \A j : DenyJob(j, u, files, checks) => DenyJob(j, v, more, next)
         /\ DenySeen(u, files, checks) => DenySeen(u, more, next)
<1>1. \A op : DenyArg(op, u, files, checks) => DenyArg(op, v, more, next)
  BY DEF DenyArg
<1>2. \A op, body : DenyBody(op, body, files, checks) => DenyBody(op, body, more, next)
  BY DEF DenyBody
<1>3. \A j : DenyJob(j, u, files, checks) => DenyJob(j, v, more, next)
  BY <1>1, <1>2 DEF DenyJob
<1>4. DenySeen(u, files, checks) => DenySeen(u, more, next)
  BY DEF DenySeen
<1> QED BY <1>3, <1>4

LEMMA DenyServes ==
  ASSUME page = "deny", DenyInv, PlaceInv, NEW j \in jobs, ServeDesk(j)
  PROVE  DenyInv'
<1>0. /\ JobShape(j) /\ j.op \in {"askUnits", "ask", "upload", "clearCheck"} /\ {"files", "checks"} \subseteq DOMAIN db
      /\ db.files \in Nat /\ IsTrail(db.checks)
      /\ DenySeen(ui, db.files, db.checks)
      /\ DenyJob(j, ui, db.files, db.checks)
      /\ UNCHANGED <<page, ui>>
  BY DenyFields DEF DenyInv, ServeDesk, Serves
<1>1. ASSUME NEW body, NEW rows, Answers(j, "ok", body, rows), rows.files \in Nat, IsTrail(rows.checks),
             db.files > 0 => rows.files > 0, WasDenied(db.checks) => WasDenied(rows.checks),
             WasCleared(db.checks) => WasCleared(rows.checks), DenyBody(j.op, body, rows.files, rows.checks)
      PROVE  DenyInv'
  <2>1. PICK m : /\ JobShape(m) /\ m.op = j.op /\ Arg(m) = Arg(j) /\ m.stage = "answered"
                 /\ jobs' = (jobs \ {j}) \cup {m}
                 /\ \/ m.code = "ok" /\ Body(m) = body /\ db' = rows
                    \/ m.code \in {"lost", "noKey"} /\ db' \in {db, rows}
    BY <1>0, <1>1, JobAnswered
  <2>2. /\ db'.files \in Nat /\ IsTrail(db'.checks) /\ (db.files > 0 => db'.files > 0)
        /\ WasDenied(db.checks) => WasDenied(db'.checks)
        /\ WasCleared(db.checks) => WasCleared(db'.checks)
    BY <1>0, <1>1, <2>1
  <2>3. /\ \A k : DenyJob(k, ui, db.files, db.checks) => DenyJob(k, ui, db'.files, db'.checks)
        /\ DenySeen(ui, db'.files, db'.checks)
    BY <1>0, <2>2, DenyStays
  <2>4. DenyJob(m, ui, db'.files, db'.checks)
    <3>1. DenyArg(m.op, ui, db'.files, db'.checks)
      BY <1>0, <2>1, <2>3 DEF DenyJob
    <3>2. Got(m) => DenyBody(m.op, Body(m), db'.files, db'.checks)
      BY <1>1, <2>1 DEF Got
    <3> QED BY <3>1, <3>2 DEF DenyJob
  <2>5. \A k \in jobs' : DenyJob(k, ui, db'.files, db'.checks)
    BY <2>1, <2>3, <2>4 DEF DenyInv
  <2> QED BY <1>0, <2>2, <2>3, <2>5 DEF DenyInv, DenyJob, Got, Body
<1>2. CASE Sent(j, "askUnits") /\ Answers(j, "ok", db.units, db)
  <2>1. DenyBody(j.op, db.units, db.files, db.checks)
    BY <1>2 DEF DenyBody, Sent
  <2> QED BY <1>0, <1>1, <1>2, <2>1
<1>3. ASSUME NEW required, NEW row, row = EvidenceCheck(required, FALSE), j.op = "ask",
             Answers(j, "ok", row.result, [db EXCEPT !.checks = Append(@, row)])
      PROVE  DenyInv'
  <2>1. PICK rows : rows = [db EXCEPT !.checks = Append(@, row)]
    OBVIOUS
  <2>2. rows.files = db.files /\ rows.checks = Append(db.checks, row)
    BY <1>0, <2>1
  <2>3. row.result = "denied" => row = [ref |-> FALSE, result |-> "denied"]
    BY <1>3 DEF EvidenceCheck
  <2>4. /\ IsTrail(rows.checks)
        /\ WasDenied(db.checks) => WasDenied(rows.checks)
        /\ WasCleared(db.checks) => WasCleared(rows.checks)
        /\ row = [ref |-> FALSE, result |-> "denied"] => WasDenied(rows.checks)
    BY <1>0, <2>2, TrailGrows
  <2>5. DenyBody(j.op, row.result, rows.files, rows.checks)
    BY <1>3, <2>3, <2>4 DEF DenyBody
  <2> QED BY <1>0, <1>1, <1>3, <2>1, <2>2, <2>4, <2>5
<1>4. ASSUME NEW required, NEW row, row = EvidenceCheck(required, TRUE), j.op = "clearCheck",
             Answers(j, "ok", row.result, [db EXCEPT !.checks = Append(@, row)])
      PROVE  DenyInv'
  <2>1. PICK rows : rows = [db EXCEPT !.checks = Append(@, row)]
    OBVIOUS
  <2>2. rows.files = db.files /\ rows.checks = Append(db.checks, row)
    BY <1>0, <2>1
  <2>3. row = [ref |-> TRUE, result |-> "allowed"]
    BY <1>4 DEF EvidenceCheck
  <2>4. WasDenied(db.checks)
    BY <1>0, <1>4 DEF DenyJob, DenyArg
  <2>5. /\ IsTrail(rows.checks)
        /\ WasDenied(db.checks) => WasDenied(rows.checks)
        /\ WasCleared(rows.checks)
    BY <1>0, <2>2, <2>3, <2>4, TrailGrows
  <2>6. DenyBody(j.op, row.result, rows.files, rows.checks)
    <3>1. PICK result : result = row.result
      OBVIOUS
    <3>2. result = "allowed"
      BY <2>3, <3>1
    <3>3. j.op = "clearCheck"
      BY <1>4
    <3>4. DenyBody(j.op, result, rows.files, rows.checks)
      BY <2>5, <3>2, <3>3 DEF DenyBody
    <3> QED BY <3>1, <3>4
  <2> QED BY <1>0, <1>1, <1>4, <2>1, <2>2, <2>5, <2>6
<1>5. CASE j.op = "upload" /\ Answers(j, "ok", TRUE, [db EXCEPT !.files = @ + 1])
  <2>1. PICK rows : rows = [db EXCEPT !.files = @ + 1]
    OBVIOUS
  <2>2. rows.files = db.files + 1 /\ rows.checks = db.checks
    BY <1>0, <2>1
  <2>3. rows.files \in Nat /\ rows.files > 0
    BY <1>0, <2>2
  <2>4. PICK body : body = TRUE
    OBVIOUS
  <2>5. DenyBody(j.op, body, rows.files, rows.checks)
    BY <1>5, <2>3 DEF DenyBody
  <2>6. Answers(j, "ok", body, rows)
    BY <1>5, <2>1, <2>4
  <2> QED BY <1>0, <1>1, <2>2, <2>3, <2>5, <2>6
<1> QED BY <1>0, <1>2, <1>3, <1>4, <1>5 DEF ServeDesk, Checked, Sent

\* A step of the page.
LEMMA DenyMoves ==
  ASSUME page = "deny", DenyInv, UNCHANGED <<page, db>>, ui.evidence => ui'.evidence,
         DenySeen(ui', db.files, db.checks),
         \A k \in jobs' : k \in jobs \/ \E op, arg : Fresh(k, op, arg) /\ DenyArg(op, ui', db.files, db.checks)
  PROVE  DenyInv'
<1>1. \A k : DenyJob(k, ui, db.files, db.checks) => DenyJob(k, ui', db.files, db.checks)
  BY DenyStays
<1>2. ASSUME NEW k \in jobs'
      PROVE  DenyJob(k, ui', db.files, db.checks)
  <2>1. CASE k \in jobs
    BY <1>1, <2>1 DEF DenyInv
  <2>2. CASE \E op, arg : Fresh(k, op, arg) /\ DenyArg(op, ui', db.files, db.checks)
    BY <2>2 DEF Fresh, DenyJob, Got
  <2> QED BY <1>2, <2>1, <2>2
<1> QED BY <1>2 DEF DenyInv, DenyJob, Got, Body

LEMMA DenyClicks ==
  ASSUME page = "deny", DenyInv, PlaceInv, DeskClick
  PROVE  DenyInv'
<1>0. /\ {"units", "check", "busy", "needsKey", "error", "evidence", "cleared", "clearing", "clearError"} \subseteq DOMAIN ui
      /\ DenySeen(ui, db.files, db.checks)
  BY DenyFields DEF DenyInv
<1> DEFINE Moved == \A k \in jobs' : k \in jobs \/ \E op, arg : Fresh(k, op, arg) /\ DenyArg(op, ui', db.files, db.checks)
<1>1. UNCHANGED <<page, db>>
  BY DEF DeskClick, AskWithoutPass, ClearWithEvidence, DeskKey, EditHelperList, UploadVerification, Looks, Clicks
<1>2. ASSUME NEW op, NEW arg, Starts({<<op, arg>>}), DenyArg(op, ui', db.files, db.checks)
      PROVE  Moved
  BY <1>2, OneStart
<1>3. CASE AskWithoutPass
  <2>1. ui'.check = Nothing /\ ui'.cleared = ui.cleared /\ ui'.evidence = ui.evidence
    BY <1>0, <1>3 DEF AskWithoutPass
  <2>2. DenySeen(ui', db.files, db.checks)
    BY <1>0, <2>1, ResultAssumption DEF DenySeen
  <2>3. UNCHANGED jobs \/ Starts({<<"askUnits", Nothing>>}) \/ Starts({<<"ask", Target(ui.units)>>})
    BY <1>3 DEF AskWithoutPass
  <2>4. DenyArg("askUnits", ui', db.files, db.checks) /\ DenyArg("ask", ui', db.files, db.checks)
    BY DEF DenyArg
  <2>5. Moved
    <3>1. PICK target : target = Target(ui.units)
      OBVIOUS
    <3> QED BY <1>2, <2>3, <2>4, <3>1
  <2> QED BY <1>1, <2>1, <2>2, <2>5, DenyMoves
<1>4. CASE ClearWithEvidence
  <2>1. ui'.check = ui.check /\ ui'.cleared = ui.cleared /\ ui'.evidence = ui.evidence
    BY <1>0, <1>4 DEF ClearWithEvidence
  <2>2. DenySeen(ui', db.files, db.checks)
    BY <1>0, <2>1 DEF DenySeen
  <2>3. DenyArg("upload", ui', db.files, db.checks)
    BY <1>0, <1>4 DEF DenyArg, DenySeen, ClearWithEvidence, Denied
  <2>4. Moved
    <3>1. PICK target : target = Target(ui.units)
      OBVIOUS
    <3>2. Starts({<<"upload", target>>})
      BY <1>4, <3>1 DEF ClearWithEvidence
    <3> QED BY <1>2, <2>3, <3>2
  <2> QED BY <1>1, <2>1, <2>2, <2>4, DenyMoves
<1>5. CASE DeskKey
  <2>1. ui'.check = ui.check /\ ui'.cleared = ui.cleared /\ ui'.evidence = ui.evidence
    BY <1>0, <1>5 DEF DeskKey
  <2>2. DenySeen(ui', db.files, db.checks)
    BY <1>0, <2>1 DEF DenySeen
  <2> QED BY <1>1, <1>5, <2>1, <2>2, DenyMoves DEF DeskKey, Looks
<1> QED BY <1>3, <1>4, <1>5 DEF DeskClick, EditHelperList, UploadVerification

LEMMA DenyHears ==
  ASSUME page = "deny", DenyInv, PlaceInv, NEW j \in jobs, HearDesk(j)
  PROVE  DenyInv'
<1>0. /\ {"units", "check", "busy", "needsKey", "error", "evidence", "cleared", "clearing", "clearError"} \subseteq DOMAIN ui
      /\ DenySeen(ui, db.files, db.checks) /\ DenyJob(j, ui, db.files, db.checks)
      /\ j.op # "helperUpload"
  BY DenyFields DEF DenyInv
<1> DEFINE Moved == \A k \in jobs' : k \in jobs \/ \E op, arg : Fresh(k, op, arg) /\ DenyArg(op, ui', db.files, db.checks)
<1>1. UNCHANGED <<page, db>>
  BY DEF HearDesk, HearAsk, HearClear, HearUpload, Hears
<1>2. Over(j) => Moved
  BY DEF Over
<1>3. ASSUME NEW op, NEW arg, GoesOn(j, op, arg), DenyArg(op, ui', db.files, db.checks)
      PROVE  Moved
  BY <1>3, OneGoesOn
<1>4. ASSUME ui'.check = ui.check, ui'.cleared = ui.cleared, ui'.evidence = ui.evidence, Moved
      PROVE  DenyInv'
  <2>1. DenySeen(ui', db.files, db.checks)
    BY <1>0, <1>4 DEF DenySeen
  <2> QED BY <1>1, <1>4, <2>1, DenyMoves
<1>5. CASE HearAsk(j) /\ j.op = "askUnits"
  <2>1. ui'.check = ui.check /\ ui'.cleared = ui.cleared /\ ui'.evidence = ui.evidence
    BY <1>0, <1>5 DEF HearAsk, Heard, AskFailed
  <2>2. Over(j) \/ GoesOn(j, "ask", Target(Body(j)))
    BY <1>5 DEF HearAsk, Heard
  <2>3. DenyArg("ask", ui', db.files, db.checks)
    BY DEF DenyArg
  <2>4. PICK target : target = Target(Body(j))
    OBVIOUS
  <2> QED BY <1>2, <1>3, <1>4, <2>1, <2>2, <2>3, <2>4
<1>6. CASE HearAsk(j) /\ j.op # "askUnits"
  <2>1. Over(j) /\ Heard(j, "ask")
    BY <1>6 DEF HearAsk, Heard
  <2>2. CASE j.code # "ok"
    <3>1. ui'.check = ui.check /\ ui'.cleared = ui.cleared /\ ui'.evidence = ui.evidence
      BY <1>0, <1>6, <2>2 DEF HearAsk, Heard, AskFailed
    <3> QED BY <1>2, <1>4, <2>1, <3>1
  <2>3. CASE j.code = "ok"
    <3>1. ui'.check = Body(j) /\ ui'.cleared = ui.cleared /\ ui'.evidence = ui.evidence
      BY <1>0, <1>6, <2>3 DEF HearAsk, Heard
    <3>2. Body(j) = "denied" => WasDenied(db.checks)
      BY <1>0, <2>1, <2>3 DEF DenyJob, DenyBody, Got, Heard
    <3>3. DenySeen(ui', db.files, db.checks)
      BY <1>0, <3>1, <3>2 DEF DenySeen
    <3> QED BY <1>1, <1>2, <2>1, <3>1, <3>3, DenyMoves
  <2> QED BY <2>2, <2>3
<1>7. CASE HearClear(j) /\ j.op = "upload"
  <2>1. CASE j.code # "ok"
    <3>1. ui'.check = ui.check /\ ui'.cleared = ui.cleared /\ ui'.evidence = ui.evidence /\ Over(j)
      BY <1>0, <1>7, <2>1 DEF HearClear, Heard
    <3> QED BY <1>2, <1>4, <3>1
  <2>2. CASE j.code = "ok"
    <3>1. ui' = [ui EXCEPT !.evidence = TRUE] /\ GoesOn(j, "clearCheck", Arg(j)) /\ j.stage = "answered"
      BY <1>7, <2>2 DEF HearClear, Heard
    <3>2. ui'.check = ui.check /\ ui'.cleared = ui.cleared /\ ui'.evidence
      BY <1>0, <3>1
    <3>3. db.files > 0 /\ WasDenied(db.checks)
      BY <1>0, <1>7, <2>2, <3>1 DEF DenyJob, DenyArg, DenyBody, Got
    <3>4. DenySeen(ui', db.files, db.checks)
      BY <1>0, <3>2 DEF DenySeen
    <3>5. DenyArg("clearCheck", ui', db.files, db.checks)
      BY <3>2, <3>3 DEF DenyArg
    <3>6. Moved
      BY <1>3, <3>1, <3>5
    <3> QED BY <1>1, <3>2, <3>4, <3>6, DenyMoves
  <2> QED BY <2>1, <2>2
<1>8. CASE HearClear(j) /\ j.op # "upload"
  <2>1. Over(j) /\ Heard(j, "clearCheck")
    BY <1>8 DEF HearClear, Heard
  <2>2. CASE j.code # "ok"
    <3>1. ui'.check = ui.check /\ ui'.cleared = ui.cleared /\ ui'.evidence = ui.evidence
      BY <1>0, <1>8, <2>2 DEF HearClear, Heard
    <3> QED BY <1>2, <1>4, <2>1, <3>1
  <2>3. CASE j.code = "ok"
    <3>1. ui'.check = ui.check /\ ui'.cleared = Body(j) /\ ui'.evidence = ui.evidence
      BY <1>0, <1>8, <2>3 DEF HearClear, Heard
    <3>2. Body(j) = "allowed" /\ ui.evidence /\ db.files > 0 /\ WasCleared(db.checks)
      BY <1>0, <2>1, <2>3 DEF DenyJob, DenyArg, DenyBody, Got, Heard
    <3>3. DenySeen(ui', db.files, db.checks)
      BY <1>0, <3>1, <3>2 DEF DenySeen
    <3> QED BY <1>1, <1>2, <2>1, <3>1, <3>3, DenyMoves
  <2> QED BY <2>2, <2>3
<1>9. ~HearUpload(j)
  BY <1>0 DEF HearUpload, Heard
<1> QED BY <1>5, <1>6, <1>7, <1>8, <1>9 DEF HearDesk

LEMMA HelperActs ==
  ASSUME page = "docCheck", HelperInv, PlaceInv, page' = page, DeskAct
  PROVE  HelperInv'
<1>0. /\ {"items", "uploaded", "uploading", "needsKey", "error"} \subseteq DOMAIN ui
      /\ "files" \in DOMAIN db /\ db.files \in Nat
      /\ \A j \in jobs : JobShape(j) /\ j.op = "helperUpload"
      /\ ui.uploaded => db.files > 0
      /\ \A j \in jobs : Got(j) => db.files > 0
  BY HelperFields DEF HelperInv
<1>1. CASE DeskClick
  <2>1. ui'.uploaded = ui.uploaded /\ db' = db
    BY <1>0, <1>1 DEF DeskClick, AskWithoutPass, ClearWithEvidence, DeskKey, EditHelperList, UploadVerification,
       Looks, Clicks
  <2>2. UNCHANGED jobs \/ Starts({<<"helperUpload", Nothing>>})
    BY <1>1 DEF DeskClick, AskWithoutPass, ClearWithEvidence, DeskKey, EditHelperList, UploadVerification, Looks
  <2>3. \A k \in jobs' : k \in jobs \/ k.stage = "sent"
    BY <2>2, OneStart DEF Fresh
  <2> QED BY <1>0, <2>1, <2>3 DEF HelperInv, Got
<1>2. ASSUME NEW j \in jobs, ServeDesk(j)
      PROVE  HelperInv'
  <2>1. PICK rows : rows = [db EXCEPT !.files = @ + 1]
    OBVIOUS
  <2>2. PICK body : body = TRUE
    OBVIOUS
  <2>3. Answers(j, "ok", body, rows) /\ ui' = ui
    BY <1>0, <1>2, <2>1, <2>2 DEF ServeDesk, Sent, Serves
  <2>4. rows.files = db.files + 1
    BY <1>0, <2>1
  <2>5. PICK m : /\ jobs' = (jobs \ {j}) \cup {m}
                 /\ \/ db' = rows
                    \/ m.code \in {"lost", "noKey"} /\ db' \in {db, rows}
    BY <1>0, <2>3, JobAnswered
  <2>6. db'.files \in Nat /\ (db.files > 0 => db'.files > 0) /\ (Got(m) => db'.files > 0)
    BY <1>0, <2>4, <2>5 DEF Got
  <2> QED BY <1>0, <2>3, <2>5, <2>6 DEF HelperInv, Got
<1>3. ASSUME NEW j \in jobs, HearDesk(j)
      PROVE  HelperInv'
  <2>1. HearUpload(j)
    BY <1>0, <1>3 DEF HearDesk, HearAsk, HearClear, Heard
  <2>2. jobs' \subseteq jobs /\ db' = db
    BY <2>1 DEF HearUpload, Over, Hears
  <2>3. ui'.uploaded => db.files > 0
    <3>1. CASE j.code = "ok"
      BY <1>0, <2>1, <3>1 DEF HearUpload, Heard, Got
    <3>2. CASE j.code # "ok"
      <4>1. ui'.uploaded = ui.uploaded
        BY <1>0, <2>1, <3>2 DEF HearUpload
      <4> QED BY <1>0, <4>1
    <3> QED BY <3>1, <3>2
  <2> QED BY <1>0, <2>2, <2>3 DEF HelperInv, Got
<1> QED BY <1>1, <1>2, <1>3 DEF DeskAct

LEMMA DeskStep ==
  ASSUME PlaceInv, DenyInv, HelperInv, [Next]_vars
  PROVE  DenyInv' /\ HelperInv'
<1>1. ASSUME page' = "deny" PROVE DenyInv'
  <2>1. page' = page /\ (Aside \/ DeskAct)
    <3>1. page' \in Desks
      BY <1>1 DEF Desks
    <3> QED BY <1>1, <3>1, OwnActs
  <2>2. CASE Aside
    <3>1. ui' = ui /\ db' = db /\ jobs' \subseteq jobs
      BY <2>2 DEF Aside, HearAbandoned, vars
    <3> QED BY <2>1, <3>1 DEF DenyInv, DenyJob, Got, Body
  <2>3. CASE DeskAct
    BY <1>1, <2>1, <2>3, DenyServes, DenyClicks, DenyHears DEF DeskAct
  <2> QED BY <2>1, <2>2, <2>3
<1>2. ASSUME page' = "docCheck" PROVE HelperInv'
  <2>1. page' = page /\ (Aside \/ DeskAct)
    <3>1. page' \in Desks
      BY <1>2 DEF Desks
    <3> QED BY <1>2, <3>1, OwnActs
  <2>2. CASE Aside
    <3>1. ui' = ui /\ db' = db /\ jobs' \subseteq jobs
      BY <2>2 DEF Aside, HearAbandoned, vars
    <3> QED BY <2>1, <3>1 DEF HelperInv, Got
  <2>3. CASE DeskAct
    BY <1>2, <2>1, <2>3, HelperActs
  <2> QED BY <2>1, <2>2, <2>3
<1> QED BY <1>1, <1>2 DEF DenyInv, HelperInv

-----------------------------------------------------------------------------
(* The other pages, of which the Scout interview is proved about.          *)

RestOps == {"versions", "gqs", "objects", "units", "unit", "index", "ratifyWhole", "ratifyBo", "board", "patch",
            "specUnits", "check", "checks"}
ScoutOps == {"session", "replay", "rebuild", "heatmap", "contradictions", "resolve", "extract", "preview", "receipts",
             "createReceipt", "attach", "generate"} \cup GridOps \cup StoryOps

RestPages == {"versions", "genome", "scope", "spec"}

\* An interview abandons nothing.
Alive(js, ops) == Placed(js, ops) /\ \A j \in js : j.live

\* A new session is made on a page of its own, where nothing else is asked for,
\* and which waits for it.
Creating(js, u) == /\ Placed(js, {"create"})
                   /\ "creating" \in DOMAIN u
                   /\ js = {} \/ (u.creating /\ \E j : js = {j})

OtherPlaceInv ==
  /\ page \in Desks \cup OtherPages
  /\ page \in RestPages => Placed(jobs, RestOps)
  /\ page = "newSession" => Creating(jobs, ui)
  /\ page = "scout" => Alive(jobs, ScoutOps)
  /\ page \in OtherPages => acts \in Nat

RestAct ==
  \/ GenomeClick \/ ScopeClick \/ SpecClick
  \/ \E j \in jobs : \/ ServeVersions(j) \/ ServeGenome(j) \/ ServeScope(j) \/ ServeSpec(j)
                     \/ HearVersions(j) \/ HearGenome(j) \/ HearBoard(j) \/ HearPatch(j) \/ HearSpecUnits(j)
                     \/ HearSpec(j)

ScoutAct ==
  \/ ScoutClick \/ PanelsClick \/ Withdraw
  \/ \E j \in jobs : \/ ServeCreate(j) \/ ServeGrid(j) \/ ServePanels(j)
                     \/ HearCreate(j) \/ HearSession(j) \/ HearGrid(j) \/ HearPanels(j)

LEMMA OtherNames ==
  /\ RestOps \cap ScoutOps = {} /\ "create" \notin RestOps \cup ScoutOps
  /\ RestOps \cup ScoutOps \cup {"create"} = OtherOps
  /\ OtherPages = RestPages \cup {"newSession", "scout"}
  /\ RestPages \cap {"newSession", "scout"} = {} /\ Desks \cap OtherPages = {}
BY DEF RestOps, ScoutOps, OtherOps, GridOps, StoryOps, OtherPages, RestPages, Desks

\* Where the four pages act, and where they lead.
LEMMA RestActs ==
  ASSUME RestAct
  PROVE  /\ page \in RestPages \/ \E j \in jobs : j.op \in RestOps
         /\ page' = page \/ (page \in RestPages /\ (page' = "genome" \/ (StartInterview /\ page' = "newSession")))
<1> USE DEF Clicks, Looks, Serves, Hears, Sent, Heard
<1>1. CASE GenomeClick
  BY <1>1 DEF GenomeClick, OpenVersion, ObjectRow, UnitRow, RatifyBo, RatifyWhole, IndexTab, ObjectsTab,
     VersionsKey, GenomeKey, GenomeDrawn, RestPages
<1>2. CASE ScopeClick
  BY <1>2 DEF ScopeClick, SelectFunction, InScope, TypeOwner, BlurOwner, StartInterview, ScopeKey, GridDrawn, RestPages
<1>3. CASE SpecClick
  BY <1>3 DEF SpecClick, FillForm, PickUnit, PickType, TypeOver, Check, ListChecks, RestPages
<1>4. ASSUME NEW j \in jobs, ServeVersions(j) \/ ServeGenome(j) \/ ServeScope(j) \/ ServeSpec(j)
      PROVE  j.op \in RestOps /\ page' = page
  BY <1>4 DEF ServeVersions, ServeGenome, ServeScope, ServeSpec, RestOps
<1>5. ASSUME NEW j \in jobs, \/ HearVersions(j) \/ HearGenome(j) \/ HearBoard(j) \/ HearPatch(j) \/ HearSpecUnits(j)
                             \/ HearSpec(j)
      PROVE  j.op \in RestOps /\ page' = page
  BY <1>5 DEF HearVersions, HearGenome, HearBoard, HearPatch, HearSpecUnits, HearSpec, RestOps
<1> QED BY <1>1, <1>2, <1>3, <1>4, <1>5 DEF RestAct

LEMMA ScoutActs ==
  ASSUME ScoutAct
  PROVE  /\ page \in {"newSession", "scout"} \/ \E j \in jobs : j.op \in ScoutOps \cup {"create"}
         /\ page' = page \/ (page' = "scout" /\ \E j \in jobs : HearCreate(j))
<1> USE DEF Clicks, Looks, Serves, Hears, Sent, Heard
<1>1. CASE ScoutClick
  BY <1>1 DEF ScoutClick, TypeName, CreateSession, LoadSession, GridClick, AddRow, LoadSamples, FillToHundred,
     EditCell, SaveCell, SessionDrawn
<1>2. CASE PanelsClick
  BY <1>2 DEF PanelsClick, OpenElevation, CloseElevation, Rebuild, Resolve, Extract, AddOne, AddAll, Attach,
     CreateAndAttach, Generate, PanelClick, SessionDrawn
<1>3. CASE Withdraw
  BY <1>3 DEF Withdraw
<1>4. ASSUME NEW j \in jobs, ServeCreate(j) \/ ServeGrid(j) \/ ServePanels(j)
      PROVE  j.op \in ScoutOps \cup {"create"} /\ page' = page
  BY <1>4 DEF ServeCreate, ServeGrid, ServePanels, ScoutOps
<1>5. ASSUME NEW j \in jobs, HearSession(j) \/ HearGrid(j) \/ HearPanels(j)
      PROVE  j.op \in ScoutOps \cup {"create"} /\ page' = page
  BY <1>5 DEF HearSession, HearGrid, HearPanels, HearReplay, HearHeatmap, HearContradictions, HearExtract, HearChunk,
     HearPreview, HearReceipts, HearConsent, HearGenerate, ScoutOps
<1>6. ASSUME NEW j \in jobs, HearCreate(j)
      PROVE  j.op = "create" /\ page' \in {page, "scout"}
  BY <1>6 DEF HearCreate
<1> QED BY <1>1, <1>2, <1>3, <1>4, <1>5, <1>6 DEF ScoutAct

LEMMA EveryAct ==
  ASSUME [Next]_vars
  PROVE  Aside \/ RestAct \/ ScoutAct \/ SitAct \/ ChroAct \/ EvidenceAct \/ DeskAct
<1>1. CASE UNCHANGED vars
  BY <1>1 DEF Aside
<1>2. CASE Click
  BY <1>2 DEF Click, RestAct, ScoutAct, SitAct, ChroAct, EvidenceAct, DeskAct
<1>3. CASE Served
  BY <1>3 DEF Served, RestAct, ScoutAct, SitAct, ChroAct, EvidenceAct, DeskAct
<1>4. CASE Answered
  BY <1>4 DEF Answered, Aside, RestAct, ScoutAct, SitAct, ChroAct, EvidenceAct, DeskAct
<1>5. CASE Withdraw \/ SettledElsewhere \/ LineElsewhere \/ PointerElsewhere
  BY <1>5 DEF ScoutAct, SitAct, ChroAct, EvidenceAct
<1> QED BY <1>1, <1>2, <1>3, <1>4, <1>5 DEF Next

\* Which actions a step to one of these pages may be.
LEMMA OtherActs ==
  ASSUME PlaceInv, OtherPlaceInv, [Next]_vars, page' \in OtherPages
  PROVE  \/ Aside /\ page' = page
         \/ page \in RestPages /\ RestAct
         \/ page \in {"newSession", "scout"} /\ ScoutAct
<1>1. CASE Aside
  BY <1>1 DEF Aside, HearAbandoned, vars
<1>2. ASSUME SitAct \/ ChroAct \/ EvidenceAct \/ DeskAct
      PROVE  FALSE
  <2>1. PICK d \in Desks : page' = page /\ (page \in Desks \/ \E j \in jobs : j.op \in OpsOf[d])
    <3>1. CASE SitAct
      BY <3>1, SitActs DEF Desks, OpsOf
    <3>2. CASE ChroAct
      BY <3>2, ChroActs DEF Desks, OpsOf
    <3>3. CASE EvidenceAct
      BY <3>3, EvidenceActs DEF Desks, OpsOf
    <3>4. CASE DeskAct
      BY <3>4, DeskActs DEF Desks, OpsOf
    <3> QED BY <1>2, <3>1, <3>2, <3>3, <3>4
  <2>2. \A j \in jobs : j.op \in OtherOps
    BY <2>1, OtherNames DEF OtherPlaceInv, Creating, Alive, Placed
  <2> QED BY <2>1, <2>2, OtherNames, DesksNamed
<1>3. ASSUME RestAct
      PROVE  page \in RestPages
  <2>1. CASE page \in Desks
    <3>1. page' # page
      BY <2>1, OtherNames
    <3> QED BY <1>3, <3>1, RestActs
  <2>2. CASE page \in {"newSession", "scout"}
    <3>1. \A j \in jobs : j.op \notin RestOps
      BY <2>2, OtherNames DEF OtherPlaceInv, Creating, Alive, Placed
    <3> QED BY <1>3, <3>1, RestActs
  <2> QED BY <2>1, <2>2, OtherNames DEF OtherPlaceInv
<1>4. ASSUME ScoutAct
      PROVE  page \in {"newSession", "scout"}
  <2>1. CASE page \in Desks
    <3>1. \A j \in jobs : j.op \notin OtherOps
      BY <2>1, DesksNamed DEF PlaceInv
    <3>2. page \notin OtherPages
      BY <2>1, OtherNames
    <3> QED BY <1>4, <3>1, <3>2, ScoutActs, OtherNames
  <2>2. CASE page \in RestPages
    <3>1. \A j \in jobs : j.op \notin ScoutOps \cup {"create"}
      BY <2>2, OtherNames DEF OtherPlaceInv, Placed
    <3>2. page \notin {"newSession", "scout"}
      BY <2>2, OtherNames
    <3> QED BY <1>4, <3>1, <3>2, ScoutActs
  <2> QED BY <2>1, <2>2, OtherNames DEF OtherPlaceInv
<1> QED BY <1>1, <1>2, <1>3, <1>4, EveryAct

LEMMA StartsNone ==
  ASSUME NEW ops, Starts({}), Placed(jobs, ops)
  PROVE  Placed(jobs', ops)
BY DEF Starts, Placed

LEMMA AnsweredPlaced ==
  ASSUME NEW ops, NEW j \in jobs, NEW code, NEW body, NEW rows, Answers(j, code, body, rows), Placed(jobs, ops)
  PROVE  Placed(jobs', ops)
<1>1. JobShape(j) /\ j.op \in ops
  BY DEF Placed
<1>2. PICK m : JobShape(m) /\ m.op = j.op /\ jobs' = (jobs \ {j}) \cup {m}
  BY <1>1, JobAnswered
<1> QED BY <1>1, <1>2 DEF Placed

LEMMA StartAlive ==
  ASSUME NEW ops, NEW op \in ops, NEW arg, Starts({<<op, arg>>}), Alive(jobs, ops)
  PROVE  Alive(jobs', ops)
<1>1. jobs' = jobs \cup {Job(r[1], r[2], acts + 1) : r \in {<<op, arg>>}}
  BY DEF Starts
<1>2. \A m \in jobs' : m \in jobs \/ m = Job(op, arg, acts + 1)
  BY <1>1
<1>3. \A m \in jobs' : m.live
  BY <1>2 DEF Alive, Job
<1> QED BY <1>3, OneStartPlaced DEF Alive

LEMMA GoesOnAlive ==
  ASSUME NEW ops, NEW j, NEW op \in ops, NEW arg, GoesOn(j, op, arg), Alive(jobs, ops)
  PROVE  Alive(jobs', ops)
<1>1. \A m \in jobs' : m.live
  BY DEF GoesOn, Alive, Job
<1> QED BY <1>1, GoesOnPlaced DEF Alive

LEMMA AnsweredAlive ==
  ASSUME NEW ops, NEW j \in jobs, NEW code, NEW body, NEW rows, Answers(j, code, body, rows), Alive(jobs, ops)
  PROVE  Alive(jobs', ops)
<1>1. PICK c, b : jobs' = AnsweredWith(j, c, b)
  BY DEF Answers
<1>2. PICK m : m = [j EXCEPT !.stage = "answered", !.code = c, !.body = Under(j.op, b)]
  OBVIOUS
<1>3. m.live
  BY <1>2 DEF Alive, Placed, JobShape, JobFields
<1>4. \A i \in jobs' : i.live
  BY <1>1, <1>2, <1>3 DEF AnsweredWith, Alive
<1> QED BY <1>4, AnsweredPlaced DEF Alive

LEMMA AbandonedPlaced ==
  ASSUME NEW ops, jobs' = Abandoned, Placed(jobs, ops)
  PROVE  Placed(jobs', ops)
<1>1. ASSUME NEW j \in jobs, NEW m, m = [j EXCEPT !.live = FALSE]
      PROVE  JobShape(m) /\ m.op \in ops
  BY <1>1 DEF Placed, JobShape, JobFields
<1> QED BY <1>1 DEF Abandoned, Placed

\* The clicks of the four pages.
LEMMA RestClicks ==
  ASSUME GenomeClick \/ ScopeClick \/ SpecClick, Placed(jobs, RestOps), acts \in Nat
  PROVE  /\ acts' \in Nat
         /\ Placed(jobs', RestOps)
         /\ page' = "newSession" => jobs' = {} \/ page' = page
<1>0. RestOps = {"versions", "gqs", "objects", "units", "unit", "index", "ratifyWhole", "ratifyBo", "board",
                 "patch", "specUnits", "check", "checks"}
  BY DEF RestOps
<1>1. \A op \in RestOps : \A arg : Starts({<<op, arg>>}) => Placed(jobs', RestOps) /\ acts' \in Nat
  BY OneStartPlaced DEF Starts
<1>2. Starts({}) => Placed(jobs', RestOps) /\ acts' \in Nat
  BY StartsNone DEF Starts
<1>3. CASE GenomeClick
  <2>1. CASE OpenVersion
    <3>1. PICK m : m = Job("gqs", Nothing, 0)
      OBVIOUS
    <3>2. JobShape(m) /\ m.op = "gqs"
      BY <3>1, JobMade
    <3>3. jobs' = {m} /\ acts' = acts /\ page' = "genome"
      BY <2>1, <3>1 DEF OpenVersion
    <3> QED BY <1>0, <3>2, <3>3 DEF Placed
  <2>2. CASE ObjectRow \/ UnitRow \/ RatifyBo \/ RatifyWhole
    BY <1>0, <1>1, <2>2 DEF ObjectRow, UnitRow, RatifyBo, RatifyWhole, Clicks
  <2>3. CASE IndexTab
    BY <1>0, <1>1, <1>2, <2>3 DEF IndexTab, Clicks
  <2>4. CASE ObjectsTab
    BY <2>4 DEF ObjectsTab, Looks
  <2>5. CASE VersionsKey \/ GenomeKey
    BY <1>0, <1>1, <2>5 DEF VersionsKey, GenomeKey, LoadCore, Clicks
  <2> QED BY <1>3, <2>1, <2>2, <2>3, <2>4, <2>5 DEF GenomeClick
<1>4. CASE ScopeClick
  <2>1. CASE SelectFunction
    BY <1>0, <1>1, <2>1, AbandonedPlaced DEF SelectFunction, Clicks
  <2>2. \A s, field, value : Patch(s, field, value) => Placed(jobs', RestOps) /\ acts' \in Nat
    BY <1>0, <1>1 DEF Patch
  <2>3. CASE InScope
    BY <2>2, <2>3 DEF InScope, Clicks
  <2>4. CASE TypeOwner
    BY <2>4 DEF TypeOwner, Looks
  <2>5. CASE BlurOwner
    BY <2>2, <2>5 DEF BlurOwner, Clicks
  <2>6. CASE StartInterview
    BY <2>6 DEF StartInterview, Placed
  <2>7. CASE ScopeKey
    BY <1>0, <1>1, <2>7 DEF ScopeKey, Clicks
  <2> QED BY <1>4, <2>1, <2>3, <2>4, <2>5, <2>6, <2>7 DEF ScopeClick
<1>5. CASE SpecClick
  BY <1>0, <1>1, <1>5 DEF SpecClick, FillForm, PickUnit, PickType, TypeOver, Check, ListChecks, Clicks, Looks
<1> QED BY <1>3, <1>4, <1>5

LEMMA RestPlaced ==
  ASSUME RestAct, Placed(jobs, RestOps), acts \in Nat, page \in RestPages
  PROVE  /\ acts' \in Nat
         /\ Placed(jobs', RestOps)
         /\ page' = "newSession" => jobs' = {}
<1>0. RestOps = {"versions", "gqs", "objects", "units", "unit", "index", "ratifyWhole", "ratifyBo", "board",
                 "patch", "specUnits", "check", "checks"}
  BY DEF RestOps
<1>1. page # "newSession"
  BY DEF RestPages
<1>2. CASE GenomeClick \/ ScopeClick \/ SpecClick
  BY <1>1, <1>2, RestClicks
<1>3. ASSUME NEW j \in jobs, ServeVersions(j) \/ ServeGenome(j) \/ ServeScope(j) \/ ServeSpec(j)
      PROVE  acts' = acts /\ Placed(jobs', RestOps) /\ page' = page
  <2>1. acts' = acts /\ page' = page
    BY <1>3 DEF ServeVersions, ServeGenome, ServeScope, ServeSpec, Serves
  <2>2. \E code, body, rows : Answers(j, code, body, rows)
    BY <1>3 DEF ServeVersions, ServeGenome, ServeScope, ServeSpec
  <2> QED BY <2>1, <2>2, AnsweredPlaced
<1>4. ASSUME NEW j \in jobs, \/ HearVersions(j) \/ HearGenome(j) \/ HearBoard(j) \/ HearPatch(j) \/ HearSpecUnits(j)
                             \/ HearSpec(j)
      PROVE  acts' = acts /\ Placed(jobs', RestOps) /\ page' = page
  <2>1. acts' = acts /\ page' = page
    BY <1>4 DEF HearVersions, HearGenome, HearBoard, HearPatch, HearSpecUnits, HearSpec, Hears
  <2>2. Over(j) => Placed(jobs', RestOps)
    BY OverPlaced
  <2>3. \A op \in RestOps : \A arg : GoesOn(j, op, arg) => Placed(jobs', RestOps)
    BY GoesOnPlaced
  <2>4. Over(j) \/ \E op \in RestOps : \E arg : GoesOn(j, op, arg)
    BY <1>0, <1>4 DEF HearVersions, HearGenome, HearBoard, HearPatch, HearSpecUnits, HearSpec, AfterRatifyBo
  <2> QED BY <2>1, <2>2, <2>3, <2>4
<1> QED BY <1>1, <1>2, <1>3, <1>4 DEF RestAct

\* The interview.
LEMMA ScoutClicks ==
  ASSUME ScoutClick \/ PanelsClick \/ Withdraw, page = "scout", Alive(jobs, ScoutOps), acts \in Nat
  PROVE  acts' \in Nat /\ Alive(jobs', ScoutOps) /\ page' = page
<1>0. GridOps \cup StoryOps \cup (Elevations \ {"story"}) \cup {"session", "rebuild", "resolve", "extract", "attach",
        "createReceipt", "generate"} \subseteq ScoutOps
  BY DEF ScoutOps, Elevations, GridOps
<1>1. \A op \in ScoutOps : \A arg : Starts({<<op, arg>>}) => Alive(jobs', ScoutOps) /\ acts' \in Nat
  BY StartAlive DEF Starts
<1>2. \A op \in ScoutOps : \A arg : StartsBusy(op, arg) => Alive(jobs', ScoutOps) /\ acts' \in Nat
  BY <1>1 DEF StartsBusy
<1>3. \A op \in ScoutOps : \A name, flag, arg :
        PanelClick(name, flag, op, arg) => Alive(jobs', ScoutOps) /\ acts' \in Nat /\ page' = page
  BY <1>1 DEF PanelClick, Clicks
<1>4. CASE ScoutClick
  <2>1. CASE TypeName \/ CreateSession
    BY <2>1 DEF TypeName, CreateSession
  <2>2. CASE LoadSession
    BY <1>0, <1>1, <2>2 DEF LoadSession, Clicks
  <2>3. CASE AddRow \/ LoadSamples
    BY <1>0, <1>2, <2>3 DEF AddRow, LoadSamples, Clicks, GridOps
  <2>4. CASE FillToHundred
    <3>1. PICK r \in FillCells(Wanted(ui.session.units), ui.session.units) : StartsBusy(r[1], r[2])
      BY <2>4 DEF FillToHundred
    <3>2. r[1] \in ScoutOps
      BY <1>0, <3>1 DEF FillCells, FillRows, GridOps
    <3> QED BY <1>2, <2>4, <3>1, <3>2 DEF FillToHundred, Clicks
  <2>5. CASE EditCell
    BY <2>5 DEF EditCell, Looks
  <2>6. CASE SaveCell
    BY <1>0, <1>1, <2>6 DEF SaveCell, Clicks, GridOps
  <2> QED BY <1>4, <2>1, <2>2, <2>3, <2>4, <2>5, <2>6 DEF ScoutClick, GridClick
<1>5. CASE PanelsClick
  <2>1. CASE OpenElevation
    <3>1. PICK e \in Elevations : IF e = "story" THEN jobs = {} /\ UNCHANGED <<jobs, tidy, acts>>
                                                 ELSE Starts({<<e, Nothing>>})
      BY <2>1 DEF OpenElevation
    <3>2. e # "story" => e \in ScoutOps
      BY <1>0, <3>1
    <3> QED BY <1>1, <2>1, <3>1, <3>2 DEF OpenElevation, Clicks
  <2>2. CASE CloseElevation
    BY <2>2 DEF CloseElevation, Looks
  <2>3. CASE Extract
    BY <1>0, <1>1, <2>3 DEF Extract, Clicks
  <2>4. CASE AddOne
    BY <1>0, <1>1, <2>4 DEF AddOne, Clicks, StoryOps
  <2>5. CASE Rebuild \/ AddAll \/ Attach \/ CreateAndAttach \/ Generate
    BY <1>0, <1>3, <2>5 DEF Rebuild, AddAll, Attach, CreateAndAttach, Generate, StoryOps
  <2>6. CASE Resolve
    BY <1>0, <1>1, <2>6 DEF Resolve, Clicks
  <2> QED BY <1>5, <2>1, <2>2, <2>3, <2>4, <2>5, <2>6 DEF PanelsClick
<1>6. CASE Withdraw
  BY <1>6 DEF Withdraw
<1> QED BY <1>4, <1>5, <1>6

LEMMA ScoutPlaced ==
  ASSUME ScoutAct, page = "scout", Alive(jobs, ScoutOps), acts \in Nat
  PROVE  acts' \in Nat /\ Alive(jobs', ScoutOps) /\ page' = page
<1>0. GridOps \cup StoryOps \cup {"contradictions", "receipts", "attach"} \subseteq ScoutOps /\ "create" \notin ScoutOps
  BY DEF ScoutOps, GridOps, StoryOps
<1>1. CASE ScoutClick \/ PanelsClick \/ Withdraw
  BY <1>1, ScoutClicks
<1>2. ASSUME NEW j \in jobs, ServeCreate(j) \/ ServeGrid(j) \/ ServePanels(j)
      PROVE  acts' = acts /\ Alive(jobs', ScoutOps) /\ page' = page
  <2>1. acts' = acts /\ page' = page
    BY <1>2 DEF ServeCreate, ServeGrid, ServePanels, Serves
  <2>2. \E code, body, rows : Answers(j, code, body, rows)
    BY <1>2 DEF ServeCreate, ServeGrid, ServePanels
  <2> QED BY <2>1, <2>2, AnsweredAlive
<1>3. ASSUME NEW j \in jobs, HearCreate(j)
      PROVE  FALSE
  BY <1>0, <1>3 DEF HearCreate, Heard, Alive, Placed
<1>4. ASSUME NEW j \in jobs, HearSession(j) \/ HearGrid(j) \/ HearPanels(j)
      PROVE  acts' = acts /\ Alive(jobs', ScoutOps) /\ page' = page
  <2>1. acts' = acts /\ page' = page
    BY <1>4 DEF HearSession, HearGrid, HearPanels, HearReplay, HearHeatmap, HearContradictions, HearExtract, HearChunk,
       HearPreview, HearReceipts, HearConsent, HearGenerate, Hears
  <2>2. Over(j) => Alive(jobs', ScoutOps)
    BY OverPlaced DEF Over, Alive
  <2>3. \A op \in ScoutOps : \A arg : GoesOn(j, op, arg) => Alive(jobs', ScoutOps)
    BY GoesOnAlive
  <2>4. HearGrid(j) => Over(j) \/ \E r \in GridRest(j) : GoesOn(j, r[1], r[2])
    BY DEF HearGrid
  <2>5. \A r \in GridRest(j) : r[1] \in GridOps
    BY DEF GridRest, FillCells, FillRows, GridOps
  <2>6. HearChunk(j) => Over(j) \/ \E arg : GoesOn(j, j.op, arg)
    BY DEF HearChunk
  <2>7. Over(j) \/ \E op \in ScoutOps : \E arg : GoesOn(j, op, arg)
    <3>1. j.op \in ScoutOps
      BY DEF Alive, Placed
    <3>2. CASE HearGrid(j)
      BY <1>0, <2>4, <2>5, <3>2
    <3>3. CASE HearChunk(j)
      BY <2>6, <3>1, <3>3
    <3>4. CASE HearSession(j) \/ HearReplay(j) \/ HearHeatmap(j) \/ HearContradictions(j) \/ HearExtract(j)
               \/ HearPreview(j) \/ HearReceipts(j) \/ HearConsent(j) \/ HearGenerate(j)
      BY <1>0, <3>4 DEF HearSession, HearReplay, HearHeatmap, HearContradictions, HearExtract, HearPreview,
         HearReceipts, HearConsent, HearGenerate
    <3> QED BY <1>4, <3>2, <3>3, <3>4 DEF HearPanels
  <2> QED BY <2>1, <2>2, <2>3, <2>7
<1> QED BY <1>1, <1>2, <1>3, <1>4 DEF ScoutAct

\* A new session: one request, whose answer leads to the interview.
LEMMA NewSessionPlaced ==
  ASSUME ScoutAct, page = "newSession", Creating(jobs, ui), acts \in Nat
  PROVE  /\ acts' \in Nat
         /\ \/ page' = page /\ Creating(jobs', ui')
            \/ /\ page' = "scout" /\ db' = db /\ ui' = ScoutUi /\ acts' = acts /\ UNCHANGED <<tidy, calm>>
               /\ \E j, m : /\ jobs = {j} /\ jobs' = {m}
                           /\ j.op = "create" /\ j.stage = "answered"
                           /\ Fresh(m, "session", Nothing) /\ m.n = j.n /\ m.live
<1>0. "session" \in ScoutOps /\ "create" \notin ScoutOps
  BY DEF ScoutOps, GridOps, StoryOps
<1>1. CASE ScoutClick \/ PanelsClick \/ Withdraw
  <2>1. TypeName \/ CreateSession
    BY <1>1 DEF ScoutClick, LoadSession, GridClick, AddRow, LoadSamples, FillToHundred, EditCell, SaveCell,
       SessionDrawn, PanelsClick, Withdraw
  <2>2. CASE TypeName
    BY <2>2 DEF TypeName, Looks, Creating
  <2>3. CASE CreateSession
    <3>1. jobs = {} /\ Starts({<<"create", Nothing>>}) /\ page' = page
      BY <2>3 DEF CreateSession, Creating, Clicks
    <3>2. PICK m : Fresh(m, "create", Nothing) /\ jobs' = jobs \cup {m}
      BY <3>1, OneStart
    <3>3. jobs' = {m} /\ Placed(jobs', {"create"})
      BY <3>1, <3>2 DEF Fresh, Placed
    <3>4. ui' = [ui EXCEPT !.creating = TRUE, !.error = FALSE]
      BY <2>3 DEF CreateSession
    <3>5. "creating" \in DOMAIN ui' /\ ui'.creating
      BY <3>4 DEF Creating
    <3>6. acts' \in Nat
      BY <3>1 DEF Starts
    <3> QED BY <3>1, <3>3, <3>5, <3>6 DEF Creating
  <2> QED BY <2>1, <2>2, <2>3
<1>2. ASSUME NEW j \in jobs, ServeCreate(j) \/ ServeGrid(j) \/ ServePanels(j)
      PROVE  acts' = acts /\ Creating(jobs', ui') /\ page' = page
  <2>1. acts' = acts /\ page' = page /\ ui' = ui
    BY <1>2 DEF ServeCreate, ServeGrid, ServePanels, Serves
  <2>2. PICK code, body, rows : Answers(j, code, body, rows)
    BY <1>2 DEF ServeCreate, ServeGrid, ServePanels
  <2>3. jobs = {j} /\ JobShape(j)
    BY DEF Creating, Placed
  <2>4. \E m : jobs' = (jobs \ {j}) \cup {m}
    BY <2>2, <2>3, JobAnswered
  <2>5. Placed(jobs', {"create"})
    BY <2>2, AnsweredPlaced DEF Creating
  <2> QED BY <2>1, <2>3, <2>4, <2>5 DEF Creating
<1>3. ASSUME NEW j \in jobs, HearCreate(j)
      PROVE  /\ acts' = acts
             /\ \/ page' = page /\ Creating(jobs', ui')
                \/ /\ page' = "scout" /\ db' = db /\ ui' = ScoutUi /\ UNCHANGED <<tidy, calm>>
                   /\ \E m : jobs = {j} /\ jobs' = {m} /\ Fresh(m, "session", Nothing) /\ m.n = j.n /\ m.live
  <2>1. CASE j.code = "ok"
    <3>1. GoesOn(j, "session", Nothing) /\ page' = "scout" /\ ui' = ScoutUi
      BY <1>3, <2>1 DEF HearCreate
    <3>2. PICK m : m = Job("session", Nothing, j.n)
      OBVIOUS
    <3>3. Fresh(m, "session", Nothing) /\ m.n = j.n /\ m.live
      BY <3>2, JobMade DEF Fresh, Job
    <3>4. jobs = {j} /\ jobs' = {m}
      BY <3>1, <3>2 DEF GoesOn, Creating
    <3> QED BY <1>3, <3>1, <3>3, <3>4 DEF HearCreate
  <2>2. CASE j.code # "ok"
    <3>1. jobs' = {} /\ DOMAIN ui' = DOMAIN ui
      BY <1>3, <2>2 DEF HearCreate, Over, Creating
    <3> QED BY <1>3, <2>2, <3>1 DEF HearCreate, Creating, Placed
  <2> QED BY <2>1, <2>2
<1>4. ASSUME NEW j \in jobs, HearSession(j) \/ HearGrid(j) \/ HearPanels(j)
      PROVE  FALSE
  BY <1>0, <1>4 DEF HearSession, HearGrid, HearPanels, HearReplay, HearHeatmap, HearContradictions, HearExtract, HearChunk,
     HearPreview, HearReceipts, HearConsent, HearGenerate, Heard, Creating, Placed, ScoutOps
<1> QED BY <1>1, <1>2, <1>3, <1>4 DEF ScoutAct, HearCreate, Heard

LEMMA OtherPlaceStep ==
  ASSUME PlaceInv, OtherPlaceInv, [Next]_vars
  PROVE  OtherPlaceInv'
<1>1. page' \in Desks \cup OtherPages
  <2>1. page' = page \/ page' \in OtherPages
    <3>1. CASE Aside
      BY <3>1 DEF Aside, HearAbandoned, vars
    <3>2. CASE RestAct \/ ScoutAct
      <4>1. page' \in {page, "genome", "newSession", "scout"}
        BY <3>2, RestActs, ScoutActs
      <4> QED BY <4>1 DEF OtherPages
    <3> QED BY <3>1, <3>2, EveryAct, SitActs, ChroActs, EvidenceActs, DeskActs
  <2> QED BY <2>1 DEF OtherPlaceInv
<1>2. CASE page' \in Desks
  BY <1>2, OtherNames DEF OtherPlaceInv
<1>3. CASE page' \in OtherPages
  <2>1. CASE Aside /\ page' = page
    <3>1. acts' = acts /\ ui' = ui /\ jobs' \subseteq jobs
      BY <2>1 DEF Aside, HearAbandoned, vars
    <3>2. \A ops : Placed(jobs, ops) => Placed(jobs', ops)
      BY <3>1 DEF Placed
    <3>3. Creating(jobs, ui) => Creating(jobs', ui')
      BY <3>1, <3>2 DEF Creating
    <3>4. Alive(jobs, ScoutOps) => Alive(jobs', ScoutOps)
      BY <3>1, <3>2 DEF Alive
    <3> QED BY <1>1, <2>1, <3>1, <3>2, <3>3, <3>4 DEF OtherPlaceInv
  <2>2. CASE page \in RestPages /\ RestAct
    <3>1. acts' \in Nat /\ Placed(jobs', RestOps) /\ (page' = "newSession" => jobs' = {})
      BY <2>2, RestPlaced, OtherNames DEF OtherPlaceInv
    <3>2. page' \in RestPages \/ (StartInterview /\ page' = "newSession")
      BY <2>2, RestActs DEF RestPages
    <3>3. StartInterview => "creating" \in DOMAIN ui'
      BY DEF StartInterview, NewSessionUi
    <3> QED BY <1>1, <3>1, <3>2, <3>3, OtherNames DEF OtherPlaceInv, Creating, Placed
  <2>3. CASE page = "scout" /\ ScoutAct
    BY <1>1, <2>3, ScoutPlaced, OtherNames DEF OtherPlaceInv
  <2>4. CASE page = "newSession" /\ ScoutAct
    <3>1. Creating(jobs, ui) /\ acts \in Nat
      BY <2>4, OtherNames DEF OtherPlaceInv
    <3>2. CASE page' = page /\ Creating(jobs', ui') /\ acts' \in Nat
      BY <1>1, <2>4, <3>2, OtherNames DEF OtherPlaceInv
    <3>3. ASSUME NEW m, jobs' = {m}, Fresh(m, "session", Nothing), m.live, page' = "scout", acts' = acts
          PROVE  OtherPlaceInv'
      <4>1. Alive(jobs', ScoutOps)
        BY <3>3 DEF Fresh, Alive, Placed, ScoutOps
      <4> QED BY <1>1, <3>1, <3>3, <4>1, OtherNames DEF OtherPlaceInv
    <3> QED BY <2>4, <3>1, <3>2, <3>3, NewSessionPlaced
  <2> QED BY <1>3, <2>1, <2>2, <2>3, <2>4, OtherActs
<1> QED BY <1>1, <1>2, <1>3

-----------------------------------------------------------------------------
(* The grid of a Scout interview, while whoever clicks waits and nothing is *)
(* lost.                                                                   *)

SessionOps == {"session", "attach"} \cup GridOps \cup StoryOps

\* The rows that are chunks of stories, by story and place.
ChunkNames(units) == Names(units) \ PlainNames

\* A chunk is of a story of an earlier click, and one row.
Grid(units, n) ==
  /\ IsTrail(units)
  /\ \A i \in DOMAIN units : DOMAIN units[i] = {"name", "cells"}
  /\ \A x \in ChunkNames(units) : \E r \in 0..n : \E k : x = <<r, k>>
  /\ \A i, k \in DOMAIN units : units[i].name = units[k].name /\ i # k => units[i].name \in PlainNames

\* A fill is about cells that are blank, but for those it has just filled.
GridJob(j, units) ==
  /\ j.op = "addRow" => Arg(j) = HandRow
  /\ j.op \in {"sampleRow", "fillRow"} => Arg(j) # {} /\ Arg(j) \subseteq DOMAIN SampleRows
  /\ j.op = "fillCells" =>
       /\ DOMAIN Arg(j) # {} /\ DOMAIN Arg(j) \subseteq DOMAIN units
       /\ \A i \in DOMAIN Arg(j) :
            (Got(j) /\ i = Current(j)) \/ \A f \in Arg(j)[i] : units[i].cells[f] = Blank

\* Chunks are added to the panel they were asked from, and are not in the grid
\* yet; a new story has no chunk there.
StoryJob(j, panel, units) ==
  /\ j.op \in StoryOps =>
       /\ panel.name = "story" /\ panel.result # Nothing
       /\ Arg(j)[1] = panel.result
       /\ Arg(j)[2] # {} /\ Arg(j)[2] \subseteq 1..Chunks
       /\ \A k \in Arg(j)[2] : (Got(j) /\ k = Chunk(j)) \/ <<panel.result, k>> \notin ChunkNames(units)
  /\ j.op = "extract" =>
       /\ panel.name = "story"
       /\ \A k \in 1..Chunks : <<j.n, k>> \notin ChunkNames(units)
       /\ Got(j) => Body(j) = j.n

ScoutJob(j, panel, units, n) ==
  /\ j.n \in 0..n
  /\ j.stage = "answered" => Got(j)
  /\ Got(j) /\ j.op \in SessionOps => Body(j).units = units
  /\ GridJob(j, units)
  /\ StoryJob(j, panel, units)

\* What an open story has marked is all of it that is in the grid, unless the
\* answer that marks it, or another story, is on its way.
Marks(j, k) == j.op = "extract" \/ (j.op \in StoryOps /\ Got(j) /\ k = Chunk(j))

StoryShown(panel, js, units, n) ==
  panel.name = "story" =>
    /\ panel.n \in 0..n + 1
    /\ \A j \in js : j.n >= panel.n
    /\ panel.result # Nothing =>
         /\ panel.result \in 0..n
         /\ \A k \in 1..Chunks : <<panel.result, k>> \in ChunkNames(units) =>
              k \in panel.added \/ \E j \in js : Marks(j, k)

SessionShown(session, js, units) ==
  \/ session = Nothing \/ session.units = units
  \/ \E j \in js : Got(j) /\ j.op \in SessionOps

OneAtMost(js) == js = {} \/ \E j : js = {j}

Waited(js, panel, session, units, n) ==
  /\ OneAtMost(js)
  /\ Grid(units, n)
  /\ \A j \in js : ScoutJob(j, panel, units, n)
  /\ StoryShown(panel, js, units, n)
  /\ SessionShown(session, js, units)

\* The fields of the page, of its elevation and of the session.
ScoutShape(u, rows) ==
  /\ DOMAIN u = DOMAIN ScoutUi
  /\ DOMAIN u.panel = DOMAIN Closed
  /\ DOMAIN rows = DOMAIN Session(<<>>, {})

Waits == tidy /\ calm => Waited(jobs, ui.panel, ui.session, db.units, acts)

ScoutInv ==
  /\ page = "scout" => ScoutShape(ui, db) /\ Waits
  /\ page = "newSession" => \A j \in jobs : j.n \in 0..acts /\ (Got(j) => db = Session(<<>>, {}))

LEMMA Least ==
  ASSUME NEW S, S # {}, S \subseteq Nat
  PROVE  Min(S) \in S
<1>1. PICK x \in S : \A y \in S : ~ (<<y, x>> \in OpToRel(<, Nat))
  BY NatLessThanWellFounded, WFMin
<1>2. ASSUME NEW y \in S
      PROVE  x <= y
  <2>1. <<y, x>> \in Nat \X Nat
    OBVIOUS
  <2>2. ~ (y < x)
    BY <1>1, <2>1 DEF OpToRel
  <2> QED BY <2>2
<1> QED BY <1>2 DEF Min

LEMMA TrailAppended ==
  ASSUME NEW s, IsTrail(s), NEW x
  PROVE  /\ IsTrail(Append(s, x))
         /\ DOMAIN Append(s, x) = DOMAIN s \cup {Len(s) + 1} /\ Len(s) + 1 \notin DOMAIN s
         /\ Append(s, x)[Len(s) + 1] = x
         /\ \A i \in DOMAIN s : Append(s, x)[i] = s[i]
<1>1. PICK S : s \in Seq(S)
  BY DEF IsTrail
<1>2. PICK T : T = S \cup {x}
  OBVIOUS
<1>3. s \in Seq(T) /\ x \in T
  BY <1>1, <1>2
<1>4. Append(s, x) \in Seq(T)
  BY <1>3, AppendProperties
<1>5. Len(s) \in Nat /\ DOMAIN s = 1..Len(s)
  BY <1>1
<1>6. PICK n, t : n = Len(s) /\ t = Append(s, x)
  OBVIOUS
<1>7. /\ Len(t) = n + 1 /\ t[n + 1] = x
      /\ \A i \in 1..n : t[i] = s[i]
  BY <1>3, <1>6, AppendProperties
<1>8. t \in Seq(T) /\ DOMAIN t = 1..(n + 1)
  BY <1>4, <1>6, <1>7
<1> QED BY <1>5, <1>6, <1>7, <1>8 DEF IsTrail

UnitAdded(units, unit) == Append(units, unit)

\* A row more, of a plain name or of a chunk the grid did not have.
LEMMA GridAppended ==
  ASSUME NEW n \in Nat, NEW units, Grid(units, n), NEW unit, DOMAIN unit = {"name", "cells"},
         \/ unit.name \in PlainNames
         \/ /\ \E r \in 0..n : \E k : unit.name = <<r, k>>
            /\ unit.name \notin ChunkNames(units),
         NEW next, next = UnitAdded(units, unit)
  PROVE  /\ Grid(next, n)
         /\ ChunkNames(next) = ChunkNames(units) \cup ({unit.name} \ PlainNames)
         /\ DOMAIN units \subseteq DOMAIN next
         /\ \A i \in DOMAIN units : next[i] = units[i]
<1>1. PICK last : last = Len(units) + 1
  OBVIOUS
<1>2. /\ IsTrail(next)
      /\ DOMAIN next = DOMAIN units \cup {last} /\ last \notin DOMAIN units
      /\ next[last] = unit
      /\ \A i \in DOMAIN units : next[i] = units[i]
  BY <1>1, TrailAppended DEF Grid, UnitAdded
<1>3. Names(next) = Names(units) \cup {unit.name}
  BY <1>2 DEF Names
<1>4. ChunkNames(next) = ChunkNames(units) \cup ({unit.name} \ PlainNames)
  BY <1>3 DEF ChunkNames
<1>5. \A i \in DOMAIN next : DOMAIN next[i] = {"name", "cells"}
  BY <1>2 DEF Grid
<1>6. \A x \in ChunkNames(next) : \E r \in 0..n : \E k : x = <<r, k>>
  BY <1>4 DEF Grid
<1>7. ASSUME NEW i \in DOMAIN next, NEW k \in DOMAIN next, next[i].name = next[k].name, i # k
      PROVE  next[i].name \in PlainNames
  <2>1. CASE i \in DOMAIN units /\ k \in DOMAIN units
    BY <1>2, <1>7, <2>1 DEF Grid
  <2>2. CASE i = last \/ k = last
    <3>1. next[i].name = unit.name /\ unit.name \in Names(units)
      BY <1>2, <1>7, <2>2 DEF Names
    <3> QED BY <3>1 DEF ChunkNames
  <2> QED BY <1>2, <2>1, <2>2
<1> QED BY <1>1, <1>2, <1>4, <1>5, <1>6, <1>7 DEF Grid

RowFilled(units, i, cells) == [units EXCEPT ![i].cells = cells]

\* Cells filled or saved: names stay, and so do the other rows.
LEMMA GridFilled ==
  ASSUME NEW n, NEW units, Grid(units, n), NEW i, NEW cells, NEW next, next = RowFilled(units, i, cells)
  PROVE  /\ Grid(next, n)
         /\ ChunkNames(next) = ChunkNames(units)
         /\ DOMAIN next = DOMAIN units
         /\ \A k \in DOMAIN units : k # i => next[k] = units[k]
         /\ i \in DOMAIN units => next[i].cells = cells
<1>1. PICK S : units \in Seq(S)
  BY DEF Grid, IsTrail
<1>2. DOMAIN next = DOMAIN units /\ \A k \in DOMAIN units : k # i => next[k] = units[k]
  BY DEF RowFilled
<1>3. i \in DOMAIN units => /\ next[i] = [units[i] EXCEPT !.cells = cells]
                            /\ DOMAIN next[i] = {"name", "cells"}
                            /\ next[i].name = units[i].name /\ next[i].cells = cells
  <2>1. i \in DOMAIN units => next[i] = [units[i] EXCEPT !.cells = cells]
    BY DEF RowFilled
  <2>2. i \in DOMAIN units => DOMAIN units[i] = {"name", "cells"}
    BY DEF Grid
  <2> QED BY <2>1, <2>2
<1>4. IsTrail(next)
  <2>1. PICK T : T = {next[k] : k \in DOMAIN next}
    OBVIOUS
  <2>2. next \in [1..Len(units) -> T]
    <3>1. DOMAIN next = 1..Len(units)
      BY <1>1, <1>2
    <3>2. next = [k \in DOMAIN next |-> next[k]]
      BY DEF RowFilled
    <3> QED BY <2>1, <3>1, <3>2
  <2>3. next \in Seq(T)
    <3>1. Len(units) \in Nat
      BY <1>1
    <3> QED BY <2>2, <3>1, SeqDef
  <2> QED BY <2>3 DEF IsTrail
<1>5. \A k \in DOMAIN next : next[k].name = units[k].name /\ DOMAIN next[k] = {"name", "cells"}
  BY <1>2, <1>3 DEF Grid
<1>6. Names(next) = Names(units)
  BY <1>2, <1>5 DEF Names
<1>7. ChunkNames(next) = ChunkNames(units)
  BY <1>6 DEF ChunkNames
<1>8. \A x \in ChunkNames(next) : \E r \in 0..n : \E k : x = <<r, k>>
  BY <1>7 DEF Grid
<1>9. ASSUME NEW a \in DOMAIN next, NEW b \in DOMAIN next, next[a].name = next[b].name, a # b
      PROVE  next[a].name \in PlainNames
  BY <1>2, <1>5, <1>9 DEF Grid
<1> QED BY <1>2, <1>3, <1>4, <1>5, <1>7, <1>8, <1>9 DEF Grid

\* What an open story knows stays.
StoryKept(p, q) == q.name = "story" => p.name = "story" /\ q.n = p.n /\ q.result = p.result /\ q.added = p.added

\* A request that is about no cell, row or story.
Plain(op) == op \notin GridOps \cup StoryOps \cup {"extract"}

LEMMA PlainJob ==
  ASSUME NEW j, Plain(j.op), NEW units, NEW panel
  PROVE  GridJob(j, units) /\ StoryJob(j, panel, units)
BY DEF Plain, GridJob, StoryJob, GridOps

LEMMA GridLater ==
  ASSUME NEW units, NEW n \in Nat, Grid(units, n)
  PROVE  Grid(units, n + 1) /\ \A k : <<n + 1, k>> \notin ChunkNames(units)
<1>1. \A r \in 0..n : r \in 0..n + 1 /\ r # n + 1
  OBVIOUS
<1>2. \A k : <<n + 1, k>> \notin ChunkNames(units)
  <2> SUFFICES ASSUME NEW k, <<n + 1, k>> \in ChunkNames(units)
               PROVE  FALSE
    OBVIOUS
  <2>1. PICK r \in 0..n : \E i : <<n + 1, k>> = <<r, i>>
    BY DEF Grid
  <2> QED BY <1>1, <2>1
<1> QED BY <1>1, <1>2 DEF Grid

\* A click that sends a request, made where nothing is under way.
LEMMA StartWaited ==
  ASSUME NEW panel, NEW session, NEW units, NEW n \in Nat, Waited({}, panel, session, units, n),
         NEW m, m.n = n + 1, m.stage = "sent",
         NEW q, StoryKept(panel, q) \/ (m.op = "extract" /\ q = [panel EXCEPT !.busy = q.busy, !.added = {}]),
         GridJob(m, units), StoryJob(m, q, units), {"name", "n", "result", "added", "busy"} \subseteq DOMAIN panel
  PROVE  Waited({m}, q, session, units, n + 1)
<1>1. Grid(units, n + 1)
  BY GridLater DEF Waited
<1>2. ScoutJob(m, q, units, n + 1)
  BY DEF ScoutJob, Got
<1>3. StoryShown(q, {m}, units, n + 1)
  <2> SUFFICES ASSUME q.name = "story"
               PROVE  /\ q.n \in 0..(n + 1) + 1
                      /\ m.n >= q.n
                      /\ q.result # Nothing =>
                           /\ q.result \in 0..n + 1
                           /\ \A k \in 1..Chunks : <<q.result, k>> \in ChunkNames(units) => k \in q.added \/ Marks(m, k)
    BY DEF StoryShown
  <2>1. q.n = panel.n /\ q.result = panel.result /\ panel.name = "story" /\ (q.added = panel.added \/ Marks(m, 1))
    BY DEF StoryKept, Marks
  <2>2. panel.n \in 0..n + 1
    BY <2>1 DEF Waited, StoryShown
  <2>3. panel.result # Nothing =>
           /\ panel.result \in 0..n
           /\ \A k \in 1..Chunks : <<panel.result, k>> \in ChunkNames(units) => k \in panel.added
    BY <2>1 DEF Waited, StoryShown
  <2>4. m.op = "extract" => \A k : Marks(m, k)
    BY DEF Marks
  <2>5. q.added = panel.added \/ m.op = "extract"
    BY DEF StoryKept
  <2> QED BY <2>1, <2>2, <2>3, <2>4, <2>5
<1>4. SessionShown(session, {m}, units)
  BY DEF Waited, SessionShown
<1> QED BY <1>1, <1>2, <1>3, <1>4 DEF Waited, OneAtMost

\* An answer heard: what its handler sends next, and what the page takes from it.
LEMMA HearWaited ==
  ASSUME NEW panel, NEW session, NEW units, NEW n \in Nat,
         NEW j, Waited({j}, panel, session, units, n), Got(j),
         NEW js, js = {} \/ \E m : js = {m} /\ m.n = j.n /\ m.stage = "sent",
         NEW q, NEW next,
         \/ StoryKept(panel, q) /\ j.op \notin StoryOps \cup {"extract"}
         \/ StoryShown(q, js, units, n),
         (next = session /\ j.op \notin SessionOps) \/ (next = Body(j) /\ j.op \in SessionOps),
         \A m \in js : GridJob(m, units) /\ StoryJob(m, q, units)
  PROVE  Waited(js, q, next, units, n)
<1>1. OneAtMost(js) /\ Grid(units, n)
  BY DEF Waited, OneAtMost
<1>2. ScoutJob(j, panel, units, n)
  BY DEF Waited
<1>3. ASSUME NEW m \in js PROVE ScoutJob(m, q, units, n) /\ m.n = j.n
  <2>1. m.n = j.n /\ m.stage = "sent" /\ GridJob(m, units) /\ StoryJob(m, q, units)
    BY <1>3
  <2> QED BY <1>2, <2>1 DEF ScoutJob, Got
<1>4. StoryShown(q, js, units, n)
  <2> SUFFICES ASSUME StoryKept(panel, q), j.op \notin StoryOps \cup {"extract"}, q.name = "story"
               PROVE  StoryShown(q, js, units, n)
    BY DEF StoryShown
  <2>1. q.n = panel.n /\ q.result = panel.result /\ panel.name = "story" /\ q.added = panel.added
    BY DEF StoryKept
  <2>2. StoryShown(panel, {j}, units, n) /\ \A k : ~Marks(j, k)
    BY DEF Waited, Marks
  <2> QED BY <1>3, <2>1, <2>2 DEF StoryShown
<1>5. SessionShown(next, js, units)
  <2>1. CASE j.op \in SessionOps
    <3>1. Body(j).units = units /\ next = Body(j)
      BY <1>2, <2>1 DEF ScoutJob
    <3> QED BY <3>1 DEF SessionShown
  <2>2. CASE j.op \notin SessionOps
    <3>1. next = session /\ SessionShown(session, {j}, units)
      BY <2>2 DEF Waited
    <3> QED BY <2>2, <3>1 DEF SessionShown
  <2> QED BY <2>1, <2>2
<1> QED BY <1>1, <1>3, <1>4, <1>5 DEF Waited

\* A request served: the job with its answer, over the rows after it.
LEMMA ServeWaited ==
  ASSUME NEW panel, NEW session, NEW units, NEW n \in Nat,
         NEW j, Waited({j}, panel, session, units, n), j.stage = "sent",
         NEW m, m.op = j.op, Arg(m) = Arg(j), m.n = j.n, Got(m), j.op = "extract" => Body(m) = j.n,
         NEW next, Grid(next, n),
         ChunkNames(next) \subseteq ChunkNames(units) \cup {<<panel.result, k>> : k \in {i \in 1..Chunks : Marks(m, i)}},
         j.op \in SessionOps => Body(m).units = next,
         j.op \notin SessionOps => next = units,
         GridJob(m, next)
  PROVE  Waited({m}, panel, session, next, n)
<1>1. ScoutJob(j, panel, units, n) /\ ~Got(j)
  BY DEF Waited, Got
<1>2. \A k : Marks(j, k) => Marks(m, k)
  BY <1>1 DEF Marks
<1>3. j.op \in StoryOps \cup {"extract"} => panel.name = "story"
  BY <1>1 DEF ScoutJob, StoryJob
<1>4. StoryJob(m, panel, next)
  <2>1. ASSUME j.op \in StoryOps, NEW k \in Arg(m)[2], k # Chunk(m)
        PROVE  <<panel.result, k>> \notin ChunkNames(next)
    <3>1. <<panel.result, k>> \notin ChunkNames(units)
      BY <1>1, <2>1 DEF ScoutJob, StoryJob
    <3>2. \A i \in 1..Chunks : Marks(m, i) => i # k
      BY <2>1 DEF Marks, StoryOps
    <3> QED BY <3>1, <3>2
  <2>2. j.op = "extract" => next = units
    BY DEF SessionOps, GridOps, StoryOps
  <2>3. CASE j.op \in StoryOps
    BY <1>1, <2>1, <2>3 DEF ScoutJob, StoryJob, StoryOps
  <2>4. CASE j.op = "extract"
    BY <1>1, <2>2, <2>4 DEF ScoutJob, StoryJob, StoryOps
  <2> QED BY <2>3, <2>4 DEF StoryJob
<1>5. ScoutJob(m, panel, next, n)
  BY <1>1, <1>4 DEF ScoutJob
<1>6. StoryShown(panel, {m}, next, n)
  <2>1. StoryShown(panel, {j}, units, n)
    BY DEF Waited
  <2>2. ASSUME NEW k \in 1..Chunks, <<panel.result, k>> \in ChunkNames(next)
        PROVE  <<panel.result, k>> \in ChunkNames(units) \/ Marks(m, k)
    BY <2>2
  <2> QED BY <1>2, <2>1, <2>2 DEF StoryShown
<1>7. SessionShown(session, {m}, next)
  <2>1. SessionShown(session, {j}, units)
    BY DEF Waited
  <2> QED BY <1>1, <2>1 DEF SessionShown
<1> QED BY <1>5, <1>6, <1>7 DEF Waited, OneAtMost

LEMMA ScoutFields ==
  /\ DOMAIN ScoutUi = {"session", "loading", "error", "needsKey", "since", "editing", "busy", "panel"}
  /\ DOMAIN Closed = {"name", "n", "data", "busy", "result", "added", "receipts"}
  /\ \A e, n : DOMAIN Panel(e, n) = DOMAIN Closed
  /\ DOMAIN Session(<<>>, {}) = {"units", "consent", "receipts", "revoked", "contradictions", "timeline", "genomes"}
BY DEF ScoutUi, Closed, Panel, Session

LEMMA ScoutStarts ==
  ASSUME NEW op, NEW arg, Starts({<<op, arg>>}), acts \in Nat, Waits, db' = db, calm' = calm,
         DOMAIN ui.panel = DOMAIN Closed, ui'.session = ui.session,
         \/ StoryKept(ui.panel, ui'.panel)
         \/ op = "extract" /\ ui'.panel = [ui.panel EXCEPT !.busy = ui'.panel.busy, !.added = {}],
         \/ Plain(op)
         \/ jobs = {} /\ Waited({}, ui.panel, ui.session, db.units, acts) =>
              \A m : m.op = op /\ Arg(m) = arg /\ m.n = acts + 1 /\ m.stage = "sent" =>
                       GridJob(m, db.units) /\ StoryJob(m, ui'.panel, db.units)
  PROVE  Waits'
<1> SUFFICES ASSUME tidy', calm'
             PROVE  Waited(jobs', ui'.panel, ui'.session, db'.units, acts')
  BY DEF Waits
<1>1. tidy /\ calm /\ jobs = {} /\ acts' = acts + 1
  BY DEF Starts
<1>2. Waited({}, ui.panel, ui.session, db.units, acts)
  BY <1>1 DEF Waits
<1>3. PICK m : m = Job(op, arg, acts + 1)
  OBVIOUS
<1>4. m.op = op /\ Arg(m) = arg /\ m.stage = "sent" /\ m.n = acts + 1
  BY <1>3, JobMade DEF Job
<1>5. jobs' = {m}
  <2>1. jobs' = jobs \cup {Job(r[1], r[2], acts + 1) : r \in {<<op, arg>>}}
    BY DEF Starts
  <2> QED BY <1>1, <1>3, <2>1
<1>6. GridJob(m, db.units) /\ StoryJob(m, ui'.panel, db.units)
  BY <1>1, <1>2, <1>4, PlainJob
<1>7. PICK p, q, s, units : p = ui.panel /\ q = ui'.panel /\ s = ui.session /\ units = db.units
  OBVIOUS
<1>8. {"name", "n", "result", "added", "busy"} \subseteq DOMAIN p
  BY <1>7, ScoutFields
<1>9. StoryKept(p, q) \/ (m.op = "extract" /\ q = [p EXCEPT !.busy = q.busy, !.added = {}])
  BY <1>4, <1>7
<1>10. Waited({}, p, s, units, acts) /\ GridJob(m, units) /\ StoryJob(m, q, units)
  BY <1>2, <1>6, <1>7
<1>11. Waited({m}, q, s, units, acts + 1)
  BY <1>4, <1>8, <1>9, <1>10, StartWaited
<1> QED BY <1>1, <1>5, <1>7, <1>11

\* What the page shows of the session is all of it, where nothing is under way.
LEMMA DrawnRows ==
  ASSUME SessionDrawn, Waited({}, ui.panel, ui.session, db.units, acts)
  PROVE  ui.session.units = db.units
BY DEF SessionDrawn, Waited, SessionShown

LEMMA PendingRows == \A units : Pending(units) \subseteq DOMAIN SampleRows
BY DEF Pending

LEMMA PlacesOfSamples ==
  ASSUME NEW S, S # {}, S \subseteq DOMAIN SampleRows
  PROVE  Min(S) \in S
<1>1. DOMAIN SampleRows \subseteq Nat
  BY SampleAssumption
<1> QED BY <1>1, Least

\* What is left of a fill: blank cells of rows of the grid, then sample rows.
LEMMA FillAsks ==
  ASSUME NEW units, NEW todo, NEW r \in FillCells(todo, units), DOMAIN todo \subseteq DOMAIN units,
         \A i \in DOMAIN todo : \A f \in todo[i] : units[i].cells[f] = Blank,
         NEW m, m.op = r[1], Arg(m) = r[2], NEW panel
  PROVE  GridJob(m, units) /\ StoryJob(m, panel, units)
<1>1. CASE DOMAIN todo # {}
  <2>1. m.op = "fillCells" /\ Arg(m) = todo
    BY <1>1 DEF FillCells
  <2> QED BY <1>1, <2>1 DEF GridJob, StoryJob, StoryOps
<1>2. CASE DOMAIN todo = {}
  <2>1. m.op = "fillRow" /\ Arg(m) = Pending(units) /\ Pending(units) # {}
    BY <1>2 DEF FillCells, FillRows
  <2> QED BY <2>1, PendingRows DEF GridJob, StoryJob, StoryOps
<1> QED BY <1>1, <1>2

LEMMA GridClicks ==
  ASSUME GridClick, acts \in Nat, ScoutShape(ui, db), Waits
  PROVE  ScoutShape(ui', db') /\ Waits'
<1>1. ASSUME NEW op, NEW arg, StartsBusy(op, arg), Clicks,
             jobs = {} /\ Waited({}, ui.panel, ui.session, db.units, acts) =>
              \A m : m.op = op /\ Arg(m) = arg /\ m.n = acts + 1 /\ m.stage = "sent" =>
                       GridJob(m, db.units) /\ StoryJob(m, ui.panel, db.units)
      PROVE  ScoutShape(ui', db') /\ Waits'
  <2>1. DOMAIN ui' = DOMAIN ui /\ ui'.panel = ui.panel /\ ui'.session = ui.session
    BY <1>1, ScoutFields DEF StartsBusy, ScoutShape
  <2>2. Starts({<<op, arg>>}) /\ db' = db /\ calm' = calm
    BY <1>1 DEF StartsBusy, Clicks
  <2>3. StoryKept(ui.panel, ui'.panel) /\ DOMAIN ui.panel = DOMAIN Closed
    BY <2>1 DEF StoryKept, ScoutShape
  <2>4. Waits'
    BY <1>1, <2>1, <2>2, <2>3, ScoutStarts
  <2> QED BY <2>1, <2>2, <2>4 DEF ScoutShape
<1>2. CASE AddRow
  <2>1. \A m : m.op = "addRow" /\ Arg(m) = HandRow => GridJob(m, db.units) /\ StoryJob(m, ui.panel, db.units)
    BY DEF GridJob, StoryJob, StoryOps
  <2>2. StartsBusy("addRow", HandRow) /\ Clicks
    BY <1>2 DEF AddRow
  <2> QED BY <1>1, <2>1, <2>2
<1>3. CASE LoadSamples
  <2>1. PICK rows, some : /\ rows = Pending(ui.session.units) /\ rows # {}
                          /\ some \in {{Min(rows)}, rows}
                          /\ StartsBusy("sampleRow", some) /\ Clicks
    BY <1>3 DEF LoadSamples
  <2>2. some # {} /\ some \subseteq DOMAIN SampleRows
    BY <2>1, PendingRows, PlacesOfSamples
  <2>3. \A m : m.op = "sampleRow" /\ Arg(m) = some => GridJob(m, db.units) /\ StoryJob(m, ui.panel, db.units)
    BY <2>2 DEF GridJob, StoryJob, StoryOps
  <2> QED BY <1>1, <2>1, <2>3
<1>4. CASE FillToHundred
  <2>1. PICK units, todo : units = ui.session.units /\ todo = Wanted(units)
    OBVIOUS
  <2>2. PICK r \in FillCells(todo, units) : StartsBusy(r[1], r[2]) /\ Clicks /\ SessionDrawn
    BY <1>4, <2>1 DEF FillToHundred
  <2>3. DOMAIN todo \subseteq DOMAIN units /\ \A i \in DOMAIN todo : \A f \in todo[i] : units[i].cells[f] = Blank
    BY <2>1 DEF Wanted, Blanks
  <2>4. ASSUME Waited({}, ui.panel, ui.session, db.units, acts),
               NEW m, m.op = r[1], Arg(m) = r[2]
        PROVE  GridJob(m, db.units) /\ StoryJob(m, ui.panel, db.units)
    <3>1. db.units = units
      BY <2>1, <2>2, <2>4, DrawnRows
    <3>2. GridJob(m, units) /\ StoryJob(m, ui.panel, units)
      BY <2>2, <2>3, <2>4, FillAsks
    <3> QED BY <3>1, <3>2
  <2> QED BY <1>1, <2>2, <2>4
<1>5. CASE EditCell
  <2>1. UNCHANGED <<db, jobs, tidy, calm, acts>>
    BY <1>5 DEF EditCell, Looks
  <2>2. DOMAIN ui' = DOMAIN ui /\ ui'.panel = ui.panel /\ ui'.session = ui.session
    BY <1>5, ScoutFields DEF EditCell, ScoutShape
  <2> QED BY <2>1, <2>2 DEF ScoutShape, Waits
<1>6. CASE SaveCell
  <2>1. PICK arg : Starts({<<"saveCell", arg>>}) /\ Clicks
    BY <1>6 DEF SaveCell
  <2>2. DOMAIN ui' = DOMAIN ui /\ ui'.panel = ui.panel /\ ui'.session = ui.session
    BY <1>6, ScoutFields DEF SaveCell, ScoutShape
  <2>3. \A m : m.op = "saveCell" => GridJob(m, db.units) /\ StoryJob(m, ui'.panel, db.units)
    BY DEF GridJob, StoryJob, StoryOps
  <2>4. db' = db /\ calm' = calm /\ StoryKept(ui.panel, ui'.panel) /\ DOMAIN ui.panel = DOMAIN Closed
    BY <2>1, <2>2 DEF Clicks, StoryKept, ScoutShape
  <2>5. Waits'
    BY <2>1, <2>2, <2>3, <2>4, ScoutStarts
  <2> QED BY <2>2, <2>4, <2>5 DEF ScoutShape
<1> QED BY <1>2, <1>3, <1>4, <1>5, <1>6 DEF GridClick

LEMMA PanelStarts ==
  ASSUME NEW name, NEW flag, NEW op, NEW arg, PanelClick(name, flag, op, arg), acts \in Nat,
         ScoutShape(ui, db), Waits,
         \/ Plain(op)
         \/ Waited({}, ui.panel, ui.session, db.units, acts) =>
              \A m, q : m.op = op /\ Arg(m) = arg /\ m.n = acts + 1 /\ m.stage = "sent" /\ StoryKept(ui.panel, q)
                        /\ q.name = ui.panel.name /\ q.result = ui.panel.result
                          => GridJob(m, db.units) /\ StoryJob(m, q, db.units)
  PROVE  ScoutShape(ui', db') /\ Waits'
<1>1. PICK p, q : p = ui.panel /\ q = [p EXCEPT !.busy = @ \cup {flag}]
  OBVIOUS
<1>2. ui' = [ui EXCEPT !.panel.busy = @ \cup {flag}]
  BY DEF PanelClick
<1>3. DOMAIN ui' = DOMAIN ui /\ ui'.panel = q /\ ui'.session = ui.session
  BY <1>1, <1>2, ScoutFields DEF ScoutShape
<1>4. DOMAIN q = DOMAIN p /\ StoryKept(p, q) /\ q.name = p.name /\ q.result = p.result
  BY <1>1, ScoutFields DEF StoryKept, ScoutShape
<1>5. Starts({<<op, arg>>}) /\ db' = db /\ calm' = calm
  BY DEF PanelClick, Clicks
<1>6. \/ Plain(op)
      \/ jobs = {} /\ Waited({}, ui.panel, ui.session, db.units, acts) =>
              \A m : m.op = op /\ Arg(m) = arg /\ m.n = acts + 1 /\ m.stage = "sent" =>
                       GridJob(m, db.units) /\ StoryJob(m, ui'.panel, db.units)
  BY <1>1, <1>3, <1>4
<1>7. StoryKept(ui.panel, ui'.panel) /\ DOMAIN ui.panel = DOMAIN Closed
  BY <1>1, <1>3, <1>4 DEF ScoutShape
<1>8. Waits'
  BY <1>3, <1>5, <1>6, <1>7, ScoutStarts
<1> QED BY <1>1, <1>3, <1>4, <1>5, <1>8 DEF ScoutShape

\* What the buttons of a story ask for is not in the grid.
LEMMA RemainingChunks ==
  ASSUME Waited({}, ui.panel, ui.session, db.units, acts), ui.panel.name = "story", ui.panel.result # Nothing,
         NEW S, S # {}, S \subseteq Remaining,
         NEW m, m.op \in StoryOps, Arg(m) = <<ui.panel.result, S>>,
         NEW q, q.name = "story", q.result = ui.panel.result
  PROVE  GridJob(m, db.units) /\ StoryJob(m, q, db.units)
<1>1. \A k \in S : k \in 1..Chunks /\ <<ui.panel.result, k>> \notin ChunkNames(db.units)
  BY DEF Remaining, Waited, StoryShown
<1>2. Arg(m)[1] = ui.panel.result /\ Arg(m)[2] = S
  OBVIOUS
<1>3. GridJob(m, db.units)
  BY DEF GridJob, StoryOps
<1> QED BY <1>1, <1>2, <1>3 DEF StoryJob, StoryOps

LEMMA PanelClicks ==
  ASSUME PanelsClick, acts \in Nat, ScoutShape(ui, db), Waits
  PROVE  ScoutShape(ui', db') /\ Waits'
<1>1. CASE OpenElevation
  <2>1. PICK e \in Elevations : /\ ui' = [ui EXCEPT !.panel = Panel(e, acts + 1)]
                                /\ IF e = "story" THEN jobs = {} /\ UNCHANGED <<jobs, tidy, acts>>
                                                  ELSE Starts({<<e, Nothing>>})
    BY <1>1 DEF OpenElevation
  <2>2. db' = db /\ calm' = calm
    BY <1>1 DEF OpenElevation, Clicks
  <2>3. ui'.panel = Panel(e, acts + 1) /\ ui'.session = ui.session /\ ScoutShape(ui', db')
    BY <2>1, <2>2, ScoutFields DEF ScoutShape
  <2>4. ui'.panel.name = e /\ ui'.panel.n = acts + 1 /\ ui'.panel.result = Nothing
    BY <2>3 DEF Panel
  <2>5. CASE e = "story"
    <3>1. jobs = {} /\ UNCHANGED <<jobs, tidy, calm, acts, db>>
      BY <2>1, <2>2, <2>5
    <3>2. StoryShown(ui'.panel, {}, db.units, acts)
      BY <2>4 DEF StoryShown
    <3>3. ASSUME Waited({}, ui.panel, ui.session, db.units, acts)
          PROVE  Waited({}, ui'.panel, ui'.session, db.units, acts)
      BY <2>3, <3>2, <3>3 DEF Waited
    <3>4. Waits'
      BY <3>1, <3>3 DEF Waits
    <3> QED BY <2>3, <3>4
  <2>6. CASE e # "story"
    <3>1. Plain(e) /\ StoryKept(ui.panel, ui'.panel) /\ Starts({<<e, Nothing>>})
      BY <2>1, <2>4, <2>6 DEF Plain, StoryKept, Elevations, GridOps, StoryOps
    <3>2. Waits'
      BY <2>2, <2>3, <3>1, ScoutStarts DEF ScoutShape
    <3> QED BY <2>3, <3>2
  <2> QED BY <2>5, <2>6
<1>2. CASE CloseElevation
  <2>1. jobs = {} /\ UNCHANGED <<db, jobs, tidy, calm, acts>>
    BY <1>2 DEF CloseElevation, Looks
  <2>2. ui'.panel = Closed /\ ui'.session = ui.session /\ ScoutShape(ui', db')
    BY <1>2, <2>1, ScoutFields DEF CloseElevation, ScoutShape
  <2>3. StoryShown(ui'.panel, {}, db.units, acts)
    BY <2>2 DEF StoryShown, Closed, Panel
  <2>4. ASSUME Waited({}, ui.panel, ui.session, db.units, acts)
        PROVE  Waited({}, ui'.panel, ui'.session, db.units, acts)
    BY <2>2, <2>3, <2>4 DEF Waited
  <2>5. Waits'
    BY <2>1, <2>4 DEF Waits
  <2> QED BY <2>2, <2>5
<1>3. CASE Rebuild \/ Attach \/ CreateAndAttach \/ Generate
  <2>1. \E op \in {"rebuild", "attach", "createReceipt", "generate"} :
          \E name, flag, arg : PanelClick(name, flag, op, arg)
    BY <1>3 DEF Rebuild, Attach, CreateAndAttach, Generate
  <2>2. \A op \in {"rebuild", "attach", "createReceipt", "generate"} : Plain(op)
    BY DEF Plain, GridOps, StoryOps
  <2> QED BY <2>1, <2>2, PanelStarts
<1>4. CASE Extract
  <2>1. ui.panel.name = "story" /\ Starts({<<"extract", Nothing>>}) /\ db' = db /\ calm' = calm
    BY <1>4 DEF Extract, Clicks
  <2>2. ui' = [ui EXCEPT !.panel.busy = @ \cup {"extract"}, !.panel.added = {}]
    BY <1>4 DEF Extract
  <2>3. PICK busy : busy = ui.panel.busy \cup {"extract"}
    OBVIOUS
  <2>4. ui'.panel = [ui.panel EXCEPT !.busy = busy, !.added = {}] /\ ui'.session = ui.session /\ ScoutShape(ui', db')
    BY <2>1, <2>2, <2>3, ScoutFields DEF ScoutShape
  <2>5. ui'.panel.busy = busy /\ ui'.panel.name = "story"
    BY <2>1, <2>4, ScoutFields DEF ScoutShape
  <2>6. ASSUME Waited({}, ui.panel, ui.session, db.units, acts),
               NEW m, m.op = "extract", m.n = acts + 1, m.stage = "sent"
        PROVE  GridJob(m, db.units) /\ StoryJob(m, ui'.panel, db.units)
    <3>1. \A k : <<acts + 1, k>> \notin ChunkNames(db.units)
      BY <2>6, GridLater DEF Waited
    <3> QED BY <2>5, <2>6, <3>1 DEF GridJob, StoryJob, StoryOps, Got
  <2>7. Waits'
    BY <2>1, <2>4, <2>5, <2>6, ScoutStarts DEF ScoutShape
  <2> QED BY <2>4, <2>7
<1>5. CASE AddOne
  <2>1. ui.panel.name = "story" /\ ui.panel.result # Nothing /\ UNCHANGED <<ui, db, calm>>
    BY <1>5 DEF AddOne, Clicks
  <2>2. PICK k \in Remaining : Starts({<<"addOne", <<ui.panel.result, {k}>>>>})
    BY <1>5 DEF AddOne
  <2>3. ASSUME Waited({}, ui.panel, ui.session, db.units, acts),
               NEW m, m.op = "addOne", Arg(m) = <<ui.panel.result, {k}>>
        PROVE  GridJob(m, db.units) /\ StoryJob(m, ui'.panel, db.units)
    <3>1. m.op \in StoryOps /\ {k} # {} /\ {k} \subseteq Remaining
      BY <2>3 DEF StoryOps
    <3> QED BY <2>1, <2>3, <3>1, RemainingChunks
  <2>4. StoryKept(ui.panel, ui'.panel)
    BY <2>1 DEF StoryKept
  <2>5. Waits'
    BY <2>1, <2>2, <2>3, <2>4, ScoutStarts DEF ScoutShape
  <2> QED BY <2>1, <2>5
<1>6. CASE AddAll
  <2>1. /\ ui.panel.result # Nothing /\ Remaining # {} /\ ui.panel.name = "story"
        /\ PanelClick("story", "addAll", "addAll", <<ui.panel.result, Remaining>>)
    BY <1>6 DEF AddAll, PanelClick
  <2>2. ASSUME Waited({}, ui.panel, ui.session, db.units, acts),
               NEW m, NEW q, m.op = "addAll", Arg(m) = <<ui.panel.result, Remaining>>,
               q.name = ui.panel.name, q.result = ui.panel.result
        PROVE  GridJob(m, db.units) /\ StoryJob(m, q, db.units)
    <3>1. m.op \in StoryOps
      BY <2>2 DEF StoryOps
    <3> QED BY <2>1, <2>2, <3>1, RemainingChunks
  <2> QED BY <2>1, <2>2, PanelStarts
<1>7. CASE Resolve
  <2>1. PICK c : /\ Starts({<<"resolve", c>>}) /\ db' = db /\ calm' = calm
                 /\ ui' = [ui EXCEPT !.panel.busy = {c}]
    BY <1>7 DEF Resolve, Clicks
  <2>2. PICK p, q : p = ui.panel /\ q = [p EXCEPT !.busy = {c}]
    OBVIOUS
  <2>3. DOMAIN ui' = DOMAIN ui /\ ui'.panel = q /\ ui'.session = ui.session
    BY <2>1, <2>2, ScoutFields DEF ScoutShape
  <2>4. DOMAIN q = DOMAIN p /\ StoryKept(p, q)
    BY <2>2, ScoutFields DEF StoryKept, ScoutShape
  <2>5. ScoutShape(ui', db') /\ StoryKept(ui.panel, ui'.panel) /\ DOMAIN ui.panel = DOMAIN Closed
    BY <2>1, <2>2, <2>3, <2>4 DEF ScoutShape
  <2>6. Plain("resolve")
    BY DEF Plain, GridOps, StoryOps
  <2>7. Waits'
    BY <2>1, <2>3, <2>5, <2>6, ScoutStarts
  <2> QED BY <2>5, <2>7
<1> QED BY <1>1, <1>2, <1>3, <1>4, <1>5, <1>6, <1>7 DEF PanelsClick

LEMMA InterviewClicks ==
  ASSUME ScoutClick \/ PanelsClick \/ Withdraw, page = "scout", acts \in Nat, ScoutShape(ui, db), Waits
  PROVE  ScoutShape(ui', db') /\ Waits'
<1>1. CASE ScoutClick
  <2>1. LoadSession \/ GridClick
    BY <1>1 DEF ScoutClick, TypeName, CreateSession
  <2>2. CASE LoadSession
    <3>1. Starts({<<"session", Nothing>>}) /\ db' = db /\ calm' = calm
      BY <2>2 DEF LoadSession, Clicks
    <3>2. ui'.panel = ui.panel /\ ui'.session = ui.session /\ ScoutShape(ui', db')
      BY <2>2, <3>1, ScoutFields DEF LoadSession, ScoutShape
    <3>3. Plain("session") /\ StoryKept(ui.panel, ui'.panel)
      BY <3>2 DEF Plain, StoryKept, GridOps, StoryOps
    <3>4. Waits'
      BY <3>1, <3>2, <3>3, ScoutStarts DEF ScoutShape
    <3> QED BY <3>2, <3>4
  <2> QED BY <2>1, <2>2, GridClicks
<1>2. CASE Withdraw
  <2>1. ui' = ui /\ calm' = FALSE /\ DOMAIN db' = DOMAIN db
    BY <1>2 DEF Withdraw
  <2> QED BY <2>1 DEF ScoutShape, Waits
<1> QED BY <1>1, <1>2, PanelClicks

-----------------------------------------------------------------------------
(* Requests served.                                                        *)

\* What the rows after a request are, where it is the only one.
ServedWell(j, body, next, panel, units, n) ==
  /\ Grid(next, n)
  /\ \A m : m.op = j.op /\ Arg(m) = Arg(j) /\ Got(m) =>
       /\ ChunkNames(next) \subseteq ChunkNames(units) \cup {<<panel.result, k>> : k \in {i \in 1..Chunks : Marks(m, i)}}
       /\ GridJob(m, next)
  /\ j.op \in SessionOps => body.units = next
  /\ j.op \notin SessionOps => next = units
  /\ j.op = "extract" => body = j.n

\* Words stay where they are, but for those of the cell that is saved.
WordsStay(j, units, next) ==
  \A i \in DOMAIN units, f \in Fields :
    units[i].cells[f] \notin {Blank, next[i].cells[f]} => j.op = "saveCell" /\ Arg(j)[1] = i /\ Arg(j)[2] = f

LEMMA AnswersGot ==
  ASSUME NEW j, JobShape(j), NEW body, NEW rows, Answers(j, "ok", body, rows), calm'
  PROVE  /\ calm' = calm /\ db' = rows
         /\ \E m : /\ m.op = j.op /\ Arg(m) = Arg(j) /\ m.n = j.n /\ Got(m) /\ Body(m) = body
                   /\ jobs' = (jobs \ {j}) \cup {m}
<1>1. calm' = calm /\ db' = rows /\ jobs' = AnsweredWith(j, "ok", body)
  BY DEF Answers
<1>2. PICK m : m = [j EXCEPT !.stage = "answered", !.code = "ok", !.body = Under(j.op, body)]
  OBVIOUS
<1>3. /\ m.op = j.op /\ m.arg = j.arg /\ m.n = j.n /\ m.stage = "answered" /\ m.code = "ok"
      /\ m.body = Under(j.op, body)
  BY <1>2 DEF JobShape, JobFields
<1>4. Arg(m) = Arg(j) /\ Got(m) /\ Body(m) = body
  BY <1>3 DEF Arg, Got, Body, Under
<1>5. jobs' = (jobs \ {j}) \cup {m}
  BY <1>1, <1>2 DEF AnsweredWith
<1> QED BY <1>1, <1>3, <1>4, <1>5

LEMMA OneJob ==
  ASSUME NEW j \in jobs, NEW panel, NEW session, NEW units, NEW n, Waited(jobs, panel, session, units, n)
  PROVE  jobs = {j}
BY DEF Waited, OneAtMost

LEMMA ScoutAnswers ==
  ASSUME NEW j \in jobs, JobShape(j), j.stage = "sent", NEW body, NEW rows, Answers(j, "ok", body, rows), Serves,
         acts \in Nat, ScoutShape(ui, db), Waits, DOMAIN rows = DOMAIN db,
         Waited({j}, ui.panel, ui.session, db.units, acts) =>
           ServedWell(j, body, rows.units, ui.panel, db.units, acts)
  PROVE  ScoutShape(ui', db') /\ Waits'
<1>1. UNCHANGED <<ui, tidy, acts>>
  BY DEF Serves
<1>2. DOMAIN db' = DOMAIN db
  BY DEF Answers
<1>3. ASSUME tidy', calm'
      PROVE  Waited(jobs', ui.panel, ui.session, db'.units, acts)
  <2>1. calm /\ db' = rows
    BY <1>3, AnswersGot
  <2>2. PICK m : /\ m.op = j.op /\ Arg(m) = Arg(j) /\ m.n = j.n /\ Got(m) /\ Body(m) = body
                 /\ jobs' = (jobs \ {j}) \cup {m}
    BY <1>3, AnswersGot
  <2>3. Waited(jobs, ui.panel, ui.session, db.units, acts) /\ jobs = {j}
    BY <1>1, <1>3, <2>1, OneJob DEF Waits
  <2>4. jobs' = {m}
    BY <2>2, <2>3
  <2>5. PICK p, s, units, next : p = ui.panel /\ s = ui.session /\ units = db.units /\ next = rows.units
    OBVIOUS
  <2>6. Waited({j}, p, s, units, acts)
    BY <2>3, <2>5
  <2>7. ServedWell(j, body, next, p, units, acts)
    BY <2>5, <2>6
  <2>8. /\ Grid(next, acts) /\ GridJob(m, next)
        /\ ChunkNames(next) \subseteq ChunkNames(units) \cup {<<p.result, k>> : k \in {i \in 1..Chunks : Marks(m, i)}}
        /\ j.op \in SessionOps => Body(m).units = next
        /\ j.op \notin SessionOps => next = units
        /\ j.op = "extract" => Body(m) = j.n
    BY <2>2, <2>7 DEF ServedWell
  <2>9. Waited({m}, p, s, next, acts)
    BY <2>2, <2>6, <2>8, ServeWaited
  <2> QED BY <2>1, <2>4, <2>5, <2>9
<1> QED BY <1>1, <1>2, <1>3 DEF ScoutShape, Waits

CellsAfter(unit, fs, words) == [f \in Fields |-> IF f \in fs THEN words ELSE unit.cells[f]]

LEMMA CellsSetRows ==
  ASSUME NEW rows, "units" \in DOMAIN rows, NEW i, NEW fs, NEW words
  PROVE  LET next == CellsSet(rows, i, fs, words)
         IN DOMAIN next = DOMAIN rows /\ next.units = RowFilled(rows.units, i, CellsAfter(rows.units[i], fs, words))
BY DEF CellsSet, RowFilled, CellsAfter

LEMMA RowAddedRows ==
  ASSUME NEW rows, "units" \in DOMAIN rows, NEW unit
  PROVE  DOMAIN RowAdded(rows, unit) = DOMAIN rows /\ RowAdded(rows, unit).units = UnitAdded(rows.units, unit)
BY DEF RowAdded, UnitAdded

\* A row more of a plain name.
LEMMA RowServed ==
  ASSUME NEW j, j.op \in GridOps, j.op # "fillCells", NEW units, NEW n \in Nat, NEW panel, NEW session,
         Waited({j}, panel, session, units, n),
         NEW unit, unit.name \in PlainNames, DOMAIN unit = {"name", "cells"},
         NEW next, next = UnitAdded(units, unit), NEW body, body.units = next
  PROVE  ServedWell(j, body, next, panel, units, n) /\ WordsStay(j, units, next)
<1>1. Grid(units, n) /\ GridJob(j, units)
  BY DEF Waited, ScoutJob
<1>2. /\ Grid(next, n) /\ ChunkNames(next) = ChunkNames(units)
      /\ \A i \in DOMAIN units : next[i] = units[i]
  <2>1. /\ Grid(next, n)
        /\ ChunkNames(next) = ChunkNames(units) \cup ({unit.name} \ PlainNames)
        /\ \A i \in DOMAIN units : next[i] = units[i]
    BY <1>1, GridAppended
  <2> QED BY <2>1
<1>3. \A m : m.op = j.op /\ Arg(m) = Arg(j) => GridJob(m, next)
  BY <1>1 DEF GridJob
<1>4. j.op \in SessionOps /\ j.op # "extract"
  BY DEF SessionOps, GridOps
<1>5. ServedWell(j, body, next, panel, units, n)
  BY <1>2, <1>3, <1>4 DEF ServedWell
<1> QED BY <1>2, <1>5 DEF WordsStay

\* The row and the cells that are saved or filled.
AboutCells(j, i, fs) ==
  /\ j.op \in {"saveCell", "fillCells"}
  /\ j.op = "saveCell" => i = Arg(j)[1] /\ fs = {Arg(j)[2]}
  /\ j.op = "fillCells" => i = Current(j) /\ i \in DOMAIN Arg(j) /\ fs = Arg(j)[i]

\* Cells of one row saved or filled.
LEMMA CellsServed ==
  ASSUME NEW j, NEW units, NEW n \in Nat, NEW panel, NEW session,
         Waited({j}, panel, session, units, n), j.stage = "sent",
         NEW i, NEW fs, AboutCells(j, i, fs),
         NEW words, NEW next, next = RowFilled(units, i, CellsAfter(units[i], fs, words)),
         NEW body, body.units = next
  PROVE  ServedWell(j, body, next, panel, units, n) /\ WordsStay(j, units, next)
<1>0. /\ j.op \in {"saveCell", "fillCells"}
      /\ j.op = "saveCell" => i = Arg(j)[1] /\ fs = {Arg(j)[2]}
      /\ j.op = "fillCells" => i = Current(j) /\ i \in DOMAIN Arg(j) /\ fs = Arg(j)[i]
  BY DEF AboutCells
<1>1. Grid(units, n) /\ GridJob(j, units) /\ ~Got(j)
  BY DEF Waited, ScoutJob, Got
<1>2. PICK cells : cells = CellsAfter(units[i], fs, words)
  OBVIOUS
<1>3. next = RowFilled(units, i, cells)
  BY <1>2
<1>4. /\ Grid(next, n) /\ ChunkNames(next) = ChunkNames(units) /\ DOMAIN next = DOMAIN units
      /\ \A k \in DOMAIN units : k # i => next[k] = units[k]
      /\ i \in DOMAIN units => next[i].cells = cells
  BY <1>1, <1>3, GridFilled
<1>5. ASSUME NEW m, m.op = j.op, Arg(m) = Arg(j), Got(m)
      PROVE  GridJob(m, next)
  <2>1. CASE j.op = "saveCell"
    BY <1>5, <2>1 DEF GridJob
  <2>2. CASE j.op = "fillCells"
    <3>1. Current(m) = i
      BY <1>0, <1>5, <2>2 DEF Current
    <3>2. \A k \in DOMAIN Arg(j) : k # i => \A f \in Arg(j)[k] : next[k].cells[f] = Blank
      BY <1>1, <1>4, <2>2 DEF GridJob
    <3> QED BY <1>1, <1>4, <1>5, <2>2, <3>1, <3>2 DEF GridJob
  <2> QED BY <1>0, <2>1, <2>2
<1>6. j.op \in SessionOps /\ j.op # "extract"
  BY <1>0 DEF SessionOps, GridOps
<1>7. ServedWell(j, body, next, panel, units, n)
  BY <1>4, <1>5, <1>6 DEF ServedWell
<1>8. ASSUME NEW k \in DOMAIN units, NEW f \in Fields, units[k].cells[f] \notin {Blank, next[k].cells[f]}
      PROVE  j.op = "saveCell" /\ Arg(j)[1] = k /\ Arg(j)[2] = f
  <2>1. k = i
    BY <1>4, <1>8
  <2>2. f \in fs
    BY <1>2, <1>4, <1>8, <2>1 DEF CellsAfter
  <2>3. j.op = "fillCells" => units[i].cells[f] = Blank
    BY <1>0, <1>1, <2>2 DEF GridJob
  <2> QED BY <1>0, <1>8, <2>1, <2>2, <2>3
<1> QED BY <1>7, <1>8 DEF WordsStay

LEMMA GridServed ==
  ASSUME NEW j, j.op \in GridOps, j.stage = "sent", acts \in Nat, "units" \in DOMAIN db, NEW panel, NEW session,
         NEW rows, rows = GridRows(j)
  PROVE  /\ DOMAIN rows = DOMAIN db
         /\ Waited({j}, panel, session, db.units, acts) =>
              /\ ServedWell(j, SessionOut(rows), rows.units, panel, db.units, acts)
              /\ WordsStay(j, db.units, rows.units)
<1>0. SessionOut(rows).units = rows.units
  BY DEF SessionOut
<1>1. CASE j.op \in {"addRow", "sampleRow", "fillRow"}
  <2>1. PICK unit : /\ rows = RowAdded(db, unit) /\ DOMAIN unit = {"name", "cells"}
                    /\ j.op = "addRow" => unit.name = Arg(j)
                    /\ j.op # "addRow" => unit.name = SampleRows[Current(j)]
    BY <1>1 DEF GridRows, SampleUnit, Unit
  <2>2. DOMAIN rows = DOMAIN db /\ rows.units = UnitAdded(db.units, unit)
    BY <2>1, RowAddedRows
  <2>3. ASSUME Waited({j}, panel, session, db.units, acts)
        PROVE  unit.name \in PlainNames
    <3>1. GridJob(j, db.units)
      BY <2>3 DEF Waited, ScoutJob
    <3>2. CASE j.op = "addRow"
      BY <2>1, <3>1, <3>2 DEF GridJob, PlainNames
    <3>3. CASE j.op # "addRow"
      <4>1. Arg(j) # {} /\ Arg(j) \subseteq DOMAIN SampleRows /\ Current(j) = Min(Arg(j))
        BY <1>1, <3>1, <3>3 DEF GridJob, Current
      <4>2. Current(j) \in DOMAIN SampleRows
        BY <4>1, PlacesOfSamples
      <4>3. \A k \in DOMAIN SampleRows : SampleRows[k] \in ToSet(SampleRows)
        BY DEF ToSet
      <4> QED BY <2>1, <3>3, <4>2, <4>3 DEF PlainNames
    <3> QED BY <3>2, <3>3
  <2>4. PICK units, next, body : units = db.units /\ next = rows.units /\ body = SessionOut(rows)
    OBVIOUS
  <2>5. ASSUME Waited({j}, panel, session, units, acts)
        PROVE  ServedWell(j, body, next, panel, units, acts) /\ WordsStay(j, units, next)
    BY <1>0, <1>1, <2>1, <2>2, <2>3, <2>4, <2>5, RowServed
  <2> QED BY <2>2, <2>4, <2>5
<1>2. CASE j.op \in {"saveCell", "fillCells"}
  <2>1. PICK i, fs, words : /\ rows = CellsSet(db, i, fs, words)
                            /\ j.op = "saveCell" => i = Arg(j)[1] /\ fs = {Arg(j)[2]}
                            /\ j.op = "fillCells" => i = Current(j) /\ fs = Arg(j)[i]
    BY <1>2 DEF GridRows
  <2>2. PICK units, next, body : units = db.units /\ next = rows.units /\ body = SessionOut(rows)
    OBVIOUS
  <2>3. /\ DOMAIN rows = DOMAIN db
        /\ next = RowFilled(units, i, CellsAfter(units[i], fs, words))
    BY <2>1, <2>2, CellsSetRows
  <2>4. ASSUME Waited({j}, panel, session, units, acts), j.op = "fillCells"
        PROVE  i \in DOMAIN Arg(j)
    <3>1. DOMAIN Arg(j) # {} /\ DOMAIN Arg(j) \subseteq DOMAIN units /\ Current(j) = Min(DOMAIN Arg(j))
      BY <2>4 DEF Waited, ScoutJob, GridJob, Current
    <3>2. DOMAIN units \subseteq Nat
      BY <2>4 DEF Waited, Grid, IsTrail
    <3> QED BY <2>1, <2>4, <3>1, <3>2, Least
  <2>5. ASSUME Waited({j}, panel, session, units, acts)
        PROVE  ServedWell(j, body, next, panel, units, acts) /\ WordsStay(j, units, next)
    <3>1. AboutCells(j, i, fs)
      BY <1>2, <2>1, <2>4, <2>5 DEF AboutCells
    <3>2. body.units = next
      BY <1>0, <2>2
    <3> QED BY <2>3, <2>5, <3>1, <3>2, CellsServed
  <2> QED BY <2>2, <2>3, <2>5
<1> QED BY <1>1, <1>2 DEF GridOps

\* Nothing is written to the grid.
LEMMA SameServed ==
  ASSUME NEW j, j.op \notin GridOps \cup StoryOps, NEW units, NEW n, NEW panel, NEW session,
         Waited({j}, panel, session, units, n),
         NEW body, j.op \in SessionOps => body.units = units, j.op = "extract" => body = j.n
  PROVE  ServedWell(j, body, units, panel, units, n) /\ WordsStay(j, units, units)
<1>1. Grid(units, n)
  BY DEF Waited
<1>2. \A m : m.op = j.op => GridJob(m, units)
  BY DEF GridJob, GridOps
<1> QED BY <1>1, <1>2 DEF ServedWell, WordsStay

\* A chunk more, which the grid did not have.
LEMMA ChunkServed ==
  ASSUME NEW j, j.op \in StoryOps, j.stage = "sent", NEW units, NEW n \in Nat, NEW panel, NEW session,
         Waited({j}, panel, session, units, n),
         NEW next, next = UnitAdded(units, Unit(ChunkName(j), Blank)), NEW body, body.units = next
  PROVE  ServedWell(j, body, next, panel, units, n) /\ WordsStay(j, units, next)
<1>1. Grid(units, n) /\ StoryJob(j, panel, units) /\ ~Got(j)
  BY DEF Waited, ScoutJob, Got
<1>2. /\ panel.name = "story" /\ panel.result # Nothing /\ Arg(j)[1] = panel.result
      /\ Arg(j)[2] # {} /\ Arg(j)[2] \subseteq 1..Chunks
      /\ \A k \in Arg(j)[2] : <<panel.result, k>> \notin ChunkNames(units)
  BY <1>1 DEF StoryJob
<1>3. PICK c : c = Chunk(j)
  OBVIOUS
<1>4. c \in Arg(j)[2]
  <2>1. Arg(j)[2] \subseteq Nat
    BY <1>2, ChunksAssumption
  <2> QED BY <1>2, <1>3, <2>1, Least DEF Chunk
<1>5. panel.result \in 0..n
  BY <1>2 DEF Waited, StoryShown
<1>6. PICK unit : unit = Unit(ChunkName(j), Blank)
  OBVIOUS
<1>7. unit.name = <<panel.result, c>> /\ DOMAIN unit = {"name", "cells"}
  BY <1>2, <1>3, <1>6 DEF Unit, ChunkName
<1>8. /\ \E r \in 0..n : \E k : unit.name = <<r, k>>
      /\ unit.name \notin ChunkNames(units)
  BY <1>2, <1>4, <1>5, <1>7
<1>9. next = UnitAdded(units, unit)
  BY <1>6
<1>10. /\ Grid(next, n)
       /\ ChunkNames(next) = ChunkNames(units) \cup ({unit.name} \ PlainNames)
       /\ \A i \in DOMAIN units : next[i] = units[i]
  BY <1>1, <1>7, <1>8, <1>9, GridAppended
<1>11. ASSUME NEW m, m.op = j.op, Arg(m) = Arg(j), Got(m)
       PROVE  /\ ChunkNames(next) \subseteq ChunkNames(units) \cup {<<panel.result, k>> : k \in {i \in 1..Chunks : Marks(m, i)}}
              /\ GridJob(m, next)
  <2>1. Marks(m, c) /\ c \in 1..Chunks
    BY <1>2, <1>3, <1>4, <1>11 DEF Marks, Chunk
  <2>2. GridJob(m, next)
    BY <1>11 DEF GridJob, StoryOps
  <2> QED BY <1>7, <1>10, <2>1, <2>2
<1>12. j.op \in SessionOps /\ j.op # "extract"
  BY DEF SessionOps, StoryOps
<1>13. ServedWell(j, body, next, panel, units, n)
  BY <1>10, <1>11, <1>12 DEF ServedWell
<1> QED BY <1>10, <1>13 DEF WordsStay

\* What a served request answers, and the rows after it.
Outcome(j, body, rows) ==
  /\ Answers(j, "ok", body, rows) /\ DOMAIN rows = DOMAIN db
  /\ \A panel, session : Waited({j}, panel, session, db.units, acts) =>
       ServedWell(j, body, rows.units, panel, db.units, acts) /\ WordsStay(j, db.units, rows.units)

\* A read of the contradictions writes nothing else.
LEMMA DetectedKeeps ==
  ASSUME DOMAIN db = DOMAIN Session(<<>>, {})
  PROVE  /\ DOMAIN Detected(db) = DOMAIN db
         /\ Detected(db).units = db.units /\ Detected(db).consent = db.consent /\ Detected(db).timeline = db.timeline
<1>1. PICK list : Detected(db) = [db EXCEPT !.contradictions = list]
  BY DEF Detected
<1> QED BY <1>1, ScoutFields

LEMMA PanelServed ==
  ASSUME NEW j, ServePanels(j), acts \in Nat, DOMAIN db = DOMAIN Session(<<>>, {})
  PROVE  j.stage = "sent" /\ \E body, rows : Outcome(j, body, rows)
<1>0. j.stage = "sent"
  BY DEF ServePanels, Sent
<1>1. CASE j.op \in StoryOps
  <2>1. PICK rows, body : /\ rows = RowAdded(db, Unit(ChunkName(j), Blank)) /\ body = SessionOut(rows)
                          /\ Answers(j, "ok", body, rows)
    BY <1>1 DEF ServePanels, Sent, StoryOps
  <2>2. DOMAIN rows = DOMAIN db /\ rows.units = UnitAdded(db.units, Unit(ChunkName(j), Blank))
    BY <2>1, RowAddedRows, ScoutFields
  <2>3. body.units = rows.units
    BY <2>1 DEF SessionOut
  <2>4. \A panel, session : Waited({j}, panel, session, db.units, acts) =>
          ServedWell(j, body, rows.units, panel, db.units, acts) /\ WordsStay(j, db.units, rows.units)
    BY <1>0, <1>1, <2>2, <2>3, ChunkServed
  <2> QED BY <1>0, <2>1, <2>2, <2>4 DEF Outcome
<1>2. CASE j.op \notin StoryOps
  <2>1. j.op \notin GridOps
    BY <1>2 DEF ServePanels, Sent, GridOps
  <2>2. \E body, rows : /\ Answers(j, "ok", body, rows) /\ DOMAIN rows = DOMAIN db /\ rows.units = db.units
                        /\ j.op \in SessionOps => body.units = db.units
                        /\ j.op = "extract" => body = j.n
    <3>1. CASE j.op \in {"session", "attach"}
      BY <1>2, <3>1, ScoutFields DEF ServePanels, Sent, SessionOut
    <3>2. CASE j.op = "generate"
      <4>1. DOMAIN Generated(db, j.n) = DOMAIN db /\ Generated(db, j.n).units = db.units
        BY ScoutFields DEF Generated
      <4> QED BY <1>2, <3>2, <4>1 DEF ServePanels, Sent, SessionOps, GridOps, StoryOps
    <3>3. CASE j.op \in {"replay", "rebuild"}
      <4>1. PICK rows : rows \in {BuiltOnce(db), Built(db)} /\ Answers(j, "ok", rows.timeline, rows)
        BY <1>2, <3>3 DEF ServePanels, Sent
      <4>2. DOMAIN rows = DOMAIN db /\ rows.units = db.units
        BY <4>1, ScoutFields DEF Built, BuiltOnce
      <4> QED BY <3>3, <4>1, <4>2 DEF SessionOps, GridOps, StoryOps
    <3>4. CASE j.op = "contradictions"
      <4>1. Answers(j, "ok", Detected(db).contradictions, Detected(db))
        BY <1>2, <3>4 DEF ServePanels, Sent
      <4> QED BY <3>4, <4>1, DetectedKeeps DEF SessionOps, GridOps, StoryOps
    <3>5. CASE j.op = "resolve"
      <4>1. PICK rows : rows = [db EXCEPT !.contradictions[Arg(j)] = "resolved"] /\ Answers(j, "ok", <<>>, rows)
        BY <1>2, <3>5 DEF ServePanels, Sent
      <4>2. DOMAIN rows = DOMAIN db /\ rows.units = db.units
        BY <4>1, ScoutFields
      <4> QED BY <3>5, <4>1, <4>2 DEF SessionOps, GridOps, StoryOps
    <3>6. CASE j.op = "heatmap"
      BY <1>2, <3>6 DEF ServePanels, Sent, SessionOps, GridOps, StoryOps
    <3>7. CASE j.op \in {"extract", "preview", "receipts", "createReceipt"}
      BY <1>2, <3>7, ScoutFields DEF ServePanels, Sent, SessionOps, GridOps, StoryOps
    <3> QED BY <1>2, <3>1, <3>2, <3>3, <3>4, <3>5, <3>6, <3>7 DEF ServePanels, Sent
  <2>3. PICK body, rows : /\ Answers(j, "ok", body, rows) /\ DOMAIN rows = DOMAIN db /\ rows.units = db.units
                          /\ j.op \in SessionOps => body.units = db.units
                          /\ j.op = "extract" => body = j.n
    BY <2>2
  <2>4. \A panel, session : Waited({j}, panel, session, db.units, acts) =>
          ServedWell(j, body, db.units, panel, db.units, acts) /\ WordsStay(j, db.units, db.units)
    BY <1>2, <2>1, <2>3, SameServed
  <2> QED BY <1>0, <2>3, <2>4 DEF Outcome
<1> QED BY <1>1, <1>2

LEMMA InterviewServes ==
  ASSUME NEW j, j.op \in ScoutOps, ServeCreate(j) \/ ServeGrid(j) \/ ServePanels(j), acts \in Nat,
         DOMAIN db = DOMAIN Session(<<>>, {})
  PROVE  j.stage = "sent" /\ Serves /\ \E body, rows : Outcome(j, body, rows)
<1>1. ~ServeCreate(j)
  BY OtherNames DEF ServeCreate, Sent
<1>2. CASE ServeGrid(j)
  <2>1. PICK rows, body : /\ rows = GridRows(j) /\ body = SessionOut(rows) /\ Answers(j, "ok", body, rows)
                          /\ j.op \in GridOps /\ j.stage = "sent" /\ Serves
    BY <1>2 DEF ServeGrid
  <2>2. "units" \in DOMAIN db
    BY ScoutFields
  <2>3. \A panel, session : /\ DOMAIN rows = DOMAIN db
                            /\ Waited({j}, panel, session, db.units, acts) =>
                                 /\ ServedWell(j, body, rows.units, panel, db.units, acts)
                                 /\ WordsStay(j, db.units, rows.units)
    BY <2>1, <2>2, GridServed
  <2> QED BY <2>1, <2>3 DEF Outcome
<1>3. CASE ServePanels(j)
  <2>1. Serves
    BY <1>3 DEF ServePanels
  <2> QED BY <1>3, <2>1, PanelServed
<1> QED BY <1>1, <1>2, <1>3

LEMMA InterviewServed ==
  ASSUME NEW j \in jobs, JobShape(j), j.op \in ScoutOps, ServeCreate(j) \/ ServeGrid(j) \/ ServePanels(j),
         acts \in Nat, ScoutShape(ui, db), Waits
  PROVE  ScoutShape(ui', db') /\ Waits'
<1>1. DOMAIN db = DOMAIN Session(<<>>, {})
  BY DEF ScoutShape
<1>2. j.stage = "sent" /\ Serves
  BY <1>1, InterviewServes
<1>3. PICK body, rows : Outcome(j, body, rows)
  BY <1>1, InterviewServes
<1>4. /\ Answers(j, "ok", body, rows) /\ DOMAIN rows = DOMAIN db
      /\ Waited({j}, ui.panel, ui.session, db.units, acts) =>
           ServedWell(j, body, rows.units, ui.panel, db.units, acts)
  BY <1>3 DEF Outcome
<1> QED BY <1>2, <1>4, ScoutAnswers

-----------------------------------------------------------------------------
(* Answers heard.                                                          *)

\* What the page takes from an answer, and what its handler sends next.
Taken(j, js, panel, q, session, next, units, n) ==
  /\ (StoryKept(panel, q) /\ j.op \notin StoryOps \cup {"extract"}) \/ StoryShown(q, js, units, n)
  /\ (next = session /\ j.op \notin SessionOps) \/ (next = Body(j) /\ j.op \in SessionOps)
  /\ \A m \in js : GridJob(m, units) /\ StoryJob(m, q, units)

LEMMA ScoutHears ==
  ASSUME NEW j \in jobs, j.stage = "answered", Hears, acts \in Nat, Waits,
         jobs' = jobs \ {j} \/ \E m : jobs' = (jobs \ {j}) \cup {m} /\ m.n = j.n /\ m.stage = "sent",
         jobs = {j} /\ Got(j) /\ Waited({j}, ui.panel, ui.session, db.units, acts) =>
           Taken(j, jobs', ui.panel, ui'.panel, ui.session, ui'.session, db.units, acts)
  PROVE  Waits'
<1> SUFFICES ASSUME tidy', calm'
             PROVE  Waited(jobs', ui'.panel, ui'.session, db.units, acts)
  BY DEF Waits, Hears
<1>1. Waited(jobs, ui.panel, ui.session, db.units, acts)
  BY DEF Waits, Hears
<1>2. jobs = {j}
  BY <1>1, OneJob
<1>3. Got(j)
  BY <1>1 DEF Waited, ScoutJob
<1>4. PICK js, p, q, s, next, units : /\ js = jobs' /\ p = ui.panel /\ q = ui'.panel /\ s = ui.session
                                      /\ next = ui'.session /\ units = db.units
  OBVIOUS
<1>5. Waited({j}, p, s, units, acts) /\ Taken(j, js, p, q, s, next, units, acts)
  BY <1>1, <1>2, <1>3, <1>4
<1>6. js = {} \/ \E m : js = {m} /\ m.n = j.n /\ m.stage = "sent"
  BY <1>2, <1>4
<1>7. /\ \/ StoryKept(p, q) /\ j.op \notin StoryOps \cup {"extract"}
         \/ StoryShown(q, js, units, acts)
      /\ (next = s /\ j.op \notin SessionOps) \/ (next = Body(j) /\ j.op \in SessionOps)
      /\ \A m \in js : GridJob(m, units) /\ StoryJob(m, q, units)
  BY <1>5 DEF Taken
<1>8. Waited(js, q, next, units, acts)
  BY <1>3, <1>5, <1>6, <1>7, HearWaited
<1> QED BY <1>4, <1>8

LEMMA NextJob ==
  ASSUME NEW j, NEW op, NEW arg, GoesOn(j, op, arg)
  PROVE  \E m : /\ jobs' = (jobs \ {j}) \cup {m}
                /\ m.op = op /\ Arg(m) = arg /\ m.n = j.n /\ m.stage = "sent"
<1>1. PICK m : m = Job(op, arg, j.n)
  OBVIOUS
<1>2. m.op = op /\ Arg(m) = arg /\ m.n = j.n /\ m.stage = "sent"
  BY <1>1, JobMade DEF Job
<1>3. jobs' = (jobs \ {j}) \cup {m}
  BY <1>1 DEF GoesOn
<1> QED BY <1>2, <1>3

\* An answer that is about no cell, row or story.
LEMMA PlainHears ==
  ASSUME NEW j \in jobs, j.stage = "answered", Hears, acts \in Nat, Waits, Plain(j.op),
         Over(j) \/ \E op \in {"contradictions", "receipts", "attach"} : \E arg : GoesOn(j, op, arg),
         j.code = "ok" =>
           /\ StoryKept(ui.panel, ui'.panel)
           /\ (ui'.session = ui.session /\ j.op \notin SessionOps) \/ (ui'.session = Body(j) /\ j.op \in SessionOps)
  PROVE  Waits'
<1>1. \A op \in {"contradictions", "receipts", "attach"} : Plain(op)
  BY DEF Plain, GridOps, StoryOps
<1>2. jobs' = jobs \ {j} \/ \E m : jobs' = (jobs \ {j}) \cup {m} /\ m.n = j.n /\ m.stage = "sent" /\ Plain(m.op)
  BY <1>1, NextJob DEF Over
<1>3. ASSUME jobs = {j}, Got(j)
      PROVE  Taken(j, jobs', ui.panel, ui'.panel, ui.session, ui'.session, db.units, acts)
  <2>1. \A m \in jobs' : GridJob(m, db.units) /\ StoryJob(m, ui'.panel, db.units)
    BY <1>2, <1>3, PlainJob
  <2> QED BY <1>3, <2>1 DEF Taken, Got, Plain
<1> QED BY <1>2, <1>3, ScoutHears

\* An elevation keeps its name and its fields.
LEMMA PanelKept ==
  ASSUME ScoutShape(ui, db), NEW j, NEW name, NEW panel, DOMAIN panel = DOMAIN Closed, panel.name = ui.panel.name,
         NEW next, next = Keyed(Panelled(ui, j, name, panel), j)
  PROVE  /\ ScoutShape(next, db)
         /\ j.code = "ok" => /\ next.session = ui.session
                             /\ next.panel = IF InPanel(j, name) THEN panel ELSE ui.panel
                             /\ name # "story" => StoryKept(ui.panel, next.panel)
<1>1. PICK state : state = Panelled(ui, j, name, panel)
  OBVIOUS
<1>2. /\ DOMAIN state = DOMAIN ScoutUi /\ DOMAIN state.panel = DOMAIN Closed /\ state.session = ui.session
      /\ state.panel = IF InPanel(j, name) THEN panel ELSE ui.panel
  BY <1>1, ScoutFields DEF Panelled, ScoutShape
<1>3. ScoutShape(Hidden(state), db)
  BY <1>2, ScoutFields DEF Hidden, ScoutShape
<1>4. ScoutShape(next, db)
  BY <1>1, <1>2, <1>3 DEF Keyed, ScoutShape
<1>5. j.code = "ok" => next = state
  BY <1>1 DEF Keyed
<1>6. name # "story" => StoryKept(ui.panel, state.panel)
  BY <1>2 DEF StoryKept, InPanel
<1> QED BY <1>2, <1>4, <1>5, <1>6

LEMMA ElevationHears ==
  ASSUME NEW j \in jobs, acts \in Nat, ScoutShape(ui, db), Waits,
         HearReplay(j) \/ HearHeatmap(j) \/ HearContradictions(j) \/ HearPreview(j) \/ HearReceipts(j) \/ HearGenerate(j)
  PROVE  ScoutShape(ui', db') /\ Waits'
<1>1. /\ Hears /\ j.stage = "answered"
      /\ j.op \in {"replay", "rebuild", "heatmap", "contradictions", "resolve", "preview", "receipts", "generate"}
      /\ Over(j) \/ \E op \in {"contradictions", "receipts", "attach"} : \E arg : GoesOn(j, op, arg)
  BY DEF HearReplay, HearHeatmap, HearContradictions, HearPreview, HearReceipts, HearGenerate, Heard
<1>2. Plain(j.op) /\ j.op \notin SessionOps
  BY <1>1 DEF Plain, SessionOps, GridOps, StoryOps
<1>3. PICK p : p = ui.panel /\ DOMAIN p = DOMAIN Closed
  BY DEF ScoutShape
<1>4. DOMAIN Data(j) = DOMAIN Closed /\ Data(j).name = p.name
  BY <1>3, ScoutFields DEF Data
<1>5. \/ ui' = ui
      \/ \E name \in {"replay", "heatmap", "contradictions", "preview"} :
           \E panel : /\ DOMAIN panel = DOMAIN Closed /\ panel.name = p.name
                      /\ ui' = Keyed(Panelled(ui, j, name, panel), j)
  <2>1. CASE HearReplay(j)
    <3>1. PICK panel : panel = [Data(j) EXCEPT !.busy = @ \ {j.op}]
      OBVIOUS
    <3>2. DOMAIN panel = DOMAIN Closed /\ panel.name = p.name
      BY <1>4, <3>1, ScoutFields
    <3> QED BY <2>1, <3>1, <3>2 DEF HearReplay
  <2>2. CASE HearHeatmap(j)
    BY <1>4, <2>2 DEF HearHeatmap
  <2>3. CASE HearContradictions(j)
    <3>1. PICK panel : panel = [(IF j.op = "resolve" THEN ui.panel ELSE Data(j)) EXCEPT !.busy = {}]
      OBVIOUS
    <3>2. DOMAIN panel = DOMAIN Closed /\ panel.name = p.name
      BY <1>3, <1>4, <3>1, ScoutFields
    <3> QED BY <2>3, <3>1, <3>2 DEF HearContradictions
  <2>4. CASE HearPreview(j)
    BY <1>4, <2>4 DEF HearPreview
  <2>5. CASE HearReceipts(j)
    <3>1. PICK panel : panel = IF j.code = "ok" THEN [ui.panel EXCEPT !.receipts = Body(j)] ELSE ui.panel
      OBVIOUS
    <3>2. DOMAIN panel = DOMAIN Closed /\ panel.name = p.name
      BY <1>3, <3>1, ScoutFields
    <3> QED BY <2>5, <3>1, <3>2 DEF HearReceipts
  <2>6. CASE HearGenerate(j)
    <3>1. PICK result : result = IF j.code = "ok" THEN Body(j) ELSE "error"
      OBVIOUS
    <3>2. PICK panel : panel = [ui.panel EXCEPT !.result = result, !.busy = @ \ {"generate"}]
      OBVIOUS
    <3>3. DOMAIN panel = DOMAIN Closed /\ panel.name = p.name
      BY <1>3, <3>2, ScoutFields
    <3> QED BY <2>6, <3>1, <3>2, <3>3 DEF HearGenerate
  <2> QED BY <2>1, <2>2, <2>3, <2>4, <2>5, <2>6
<1>6. /\ ScoutShape(ui', db)
      /\ j.code = "ok" => ui'.session = ui.session /\ StoryKept(ui.panel, ui'.panel)
  <2>1. CASE ui' = ui
    BY <2>1 DEF StoryKept
  <2>2. CASE ui' # ui
    BY <1>3, <1>5, <2>2, PanelKept
  <2> QED BY <2>1, <2>2
<1>7. Waits'
  BY <1>1, <1>2, <1>6, PlainHears
<1> QED BY <1>1, <1>6, <1>7 DEF Hears

LEMMA SessionHears ==
  ASSUME NEW j \in jobs, acts \in Nat, ScoutShape(ui, db), Waits, HearSession(j) \/ HearConsent(j)
  PROVE  ScoutShape(ui', db') /\ Waits'
<1>1. /\ Hears /\ j.stage = "answered" /\ j.op \in {"session", "createReceipt", "attach"}
      /\ Over(j) \/ \E op \in {"contradictions", "receipts", "attach"} : \E arg : GoesOn(j, op, arg)
  BY DEF HearSession, HearConsent, Heard
<1>2. Plain(j.op) /\ (j.op \in SessionOps <=> j.op # "createReceipt")
  BY <1>1 DEF Plain, SessionOps, GridOps, StoryOps
<1>3. /\ ScoutShape(ui', db)
      /\ j.code = "ok" => /\ StoryKept(ui.panel, ui'.panel)
                          /\ IF j.op = "createReceipt" THEN ui'.session = ui.session ELSE ui'.session = Body(j)
  <2>1. CASE HearSession(j)
    <3>1. PICK read : read = [ui EXCEPT !.loading = FALSE, !.since = acts, !.editing = Nothing, !.busy = FALSE,
                                        !.panel = Closed]
      OBVIOUS
    <3>2. DOMAIN read = DOMAIN ScoutUi /\ read.panel = Closed
      BY <3>1, ScoutFields DEF ScoutShape
    <3>3. /\ j.code = "ok" => ui' = [read EXCEPT !.session = Body(j), !.needsKey = FALSE]
          /\ j.code = "noKey" => ui' = [read EXCEPT !.needsKey = TRUE]
          /\ j.code \notin {"ok", "noKey"} => ui' = [read EXCEPT !.error = TRUE]
      BY <2>1, <3>1 DEF HearSession
    <3>4. DOMAIN ui' = DOMAIN ScoutUi /\ ui'.panel = Closed /\ (j.code = "ok" => ui'.session = Body(j))
      BY <3>2, <3>3, ScoutFields
    <3> QED BY <2>1, <3>4 DEF HearSession, Heard, ScoutShape, StoryKept, Closed, Panel
  <2>2. CASE HearConsent(j)
    <3>1. PICK panel, free : /\ panel = [ui.panel EXCEPT !.busy = @ \ {"consent"}]
                             /\ free = Panelled(ui, j, "preview", panel)
      OBVIOUS
    <3>2. DOMAIN panel = DOMAIN Closed /\ panel.name = ui.panel.name
      BY <3>1, ScoutFields DEF ScoutShape
    <3>3. /\ DOMAIN free = DOMAIN ScoutUi /\ DOMAIN free.panel = DOMAIN Closed /\ free.session = ui.session
          /\ StoryKept(ui.panel, free.panel)
      BY <3>1, <3>2, ScoutFields DEF Panelled, ScoutShape, StoryKept, InPanel
    <3>4. ScoutShape(Hidden(free), db)
      BY <3>3, ScoutFields DEF Hidden, ScoutShape
    <3>5. CASE j.op = "createReceipt" /\ j.code = "ok"
      BY <2>2, <3>5 DEF HearConsent, Heard, StoryKept
    <3>6. CASE j.op = "createReceipt" /\ j.code # "ok"
      <4>1. ui' = Keyed(free, j)
        BY <2>2, <3>1, <3>6 DEF HearConsent, Heard
      <4> QED BY <3>3, <3>4, <3>6, <4>1 DEF Keyed, ScoutShape
    <3>7. CASE j.op = "attach"
      <4>1. ui' = Changed(free, j)
        BY <2>2, <3>1, <3>7 DEF HearConsent, Heard
      <4>2. CASE j.code = "ok"
        <5>1. ui' = [free EXCEPT !.session = Body(j)]
          BY <4>1, <4>2 DEF Changed
        <5>2. DOMAIN ui' = DOMAIN ScoutUi /\ ui'.panel = free.panel /\ ui'.session = Body(j)
          BY <3>3, <5>1, ScoutFields
        <5> QED BY <3>3, <3>7, <5>2 DEF ScoutShape
      <4>3. CASE j.code # "ok"
        <5>1. ui' = Hidden(free) \/ ui' = free
          BY <4>1, <4>3 DEF Changed
        <5> QED BY <3>3, <3>4, <4>3, <5>1 DEF ScoutShape
      <4> QED BY <4>2, <4>3
    <3> QED BY <2>2, <3>5, <3>6, <3>7 DEF HearConsent, Heard
  <2> QED BY <2>1, <2>2
<1>4. Waits'
  BY <1>1, <1>2, <1>3, PlainHears
<1> QED BY <1>1, <1>3, <1>4 DEF Hears

\* A new story, of which no chunk is in the grid.
LEMMA ExtractHears ==
  ASSUME NEW j \in jobs, acts \in Nat, ScoutShape(ui, db), Waits, HearExtract(j)
  PROVE  ScoutShape(ui', db') /\ Waits'
<1>1. Hears /\ j.stage = "answered" /\ j.op = "extract" /\ jobs' = jobs \ {j}
  BY DEF HearExtract, Heard, Over
<1>2. PICK kept, panel : /\ kept = IF j.code = "ok" THEN [ui.panel EXCEPT !.result = Body(j)] ELSE ui.panel
                         /\ panel = [kept EXCEPT !.busy = @ \ {"extract"}]
  OBVIOUS
<1>3. ui' = Keyed(Panelled(ui, j, "story", panel), j)
  BY <1>2 DEF HearExtract
<1>4. /\ DOMAIN panel = DOMAIN Closed /\ panel.name = ui.panel.name /\ panel.n = ui.panel.n
      /\ j.code = "ok" => panel.result = Body(j)
  BY <1>2, ScoutFields DEF ScoutShape
<1>5. /\ ScoutShape(ui', db)
      /\ j.code = "ok" => ui'.session = ui.session /\ ui'.panel = IF InPanel(j, "story") THEN panel ELSE ui.panel
  BY <1>3, <1>4, PanelKept
<1>6. ASSUME jobs = {j}, Got(j), Waited({j}, ui.panel, ui.session, db.units, acts)
      PROVE  Taken(j, jobs', ui.panel, ui'.panel, ui.session, ui'.session, db.units, acts)
  <2>1. /\ ui.panel.name = "story" /\ j.n \in 0..acts /\ Body(j) = j.n
        /\ \A k \in 1..Chunks : <<j.n, k>> \notin ChunkNames(db.units)
    BY <1>1, <1>6 DEF Waited, ScoutJob, StoryJob
  <2>2. ui.panel.n \in 0..acts + 1 /\ j.n >= ui.panel.n
    BY <1>6, <2>1 DEF Waited, StoryShown
  <2>3. j.code = "ok" /\ InPanel(j, "story")
    BY <1>6, <2>1, <2>2 DEF Got, InPanel
  <2>4. ui'.panel = panel /\ panel.result = j.n /\ ui'.session = ui.session
    BY <1>4, <1>5, <2>1, <2>3
  <2>5. jobs' = {}
    BY <1>1, <1>6
  <2>6. StoryShown(ui'.panel, {}, db.units, acts)
    BY <1>4, <2>1, <2>2, <2>4 DEF StoryShown
  <2>7. j.op \notin SessionOps
    BY <1>1 DEF SessionOps, GridOps, StoryOps
  <2> QED BY <2>4, <2>5, <2>6, <2>7 DEF Taken
<1>7. Waits'
  BY <1>1, <1>6, ScoutHears
<1> QED BY <1>1, <1>5, <1>7 DEF Hears

\* What is marked is the chunk whose row is in the grid.
LEMMA ChunkHears ==
  ASSUME NEW j \in jobs, acts \in Nat, ScoutShape(ui, db), Waits, HearChunk(j)
  PROVE  ScoutShape(ui', db') /\ Waits'
<1>1. Hears /\ j.stage = "answered" /\ j.op \in StoryOps
  BY DEF HearChunk
<1>2. PICK added, state :
        /\ added = IF j.code = "ok" /\ InPanel(j, "story") THEN [ui EXCEPT !.panel.added = Marked(j)] ELSE ui
        /\ state = IF j.code = "ok" THEN [added EXCEPT !.session = Body(j)] ELSE added
  OBVIOUS
<1>3. /\ DOMAIN state = DOMAIN ScoutUi /\ DOMAIN state.panel = DOMAIN Closed
      /\ j.code = "ok" => state.session = Body(j)
      /\ j.code = "ok" /\ InPanel(j, "story") => state.panel = [ui.panel EXCEPT !.added = Marked(j)]
  <2>1. /\ DOMAIN added = DOMAIN ScoutUi /\ DOMAIN added.panel = DOMAIN Closed
        /\ j.code = "ok" /\ InPanel(j, "story") => added.panel = [ui.panel EXCEPT !.added = Marked(j)]
    BY <1>2, ScoutFields DEF ScoutShape
  <2> QED BY <1>2, <2>1, ScoutFields
<1>4. /\ ui' = state \/ ui' = [state EXCEPT !.panel.busy = @ \ {"addAll"}]
      /\ IF j.code = "ok" /\ Arg(j)[2] # {Chunk(j)}
         THEN GoesOn(j, j.op, <<Arg(j)[1], Arg(j)[2] \ {Chunk(j)}>>)
         ELSE Over(j)
  BY <1>2 DEF HearChunk
<1>5. /\ DOMAIN ui' = DOMAIN ScoutUi /\ DOMAIN ui'.panel = DOMAIN Closed /\ ui'.session = state.session
      /\ ui'.panel.name = state.panel.name /\ ui'.panel.n = state.panel.n
      /\ ui'.panel.result = state.panel.result /\ ui'.panel.added = state.panel.added
  BY <1>3, <1>4, ScoutFields
<1>6. jobs' = jobs \ {j} \/ \E m : /\ jobs' = (jobs \ {j}) \cup {m} /\ m.n = j.n /\ m.stage = "sent"
                                   /\ m.op = j.op /\ Arg(m) = <<Arg(j)[1], Arg(j)[2] \ {Chunk(j)}>>
                                   /\ Arg(j)[2] # {Chunk(j)}
  BY <1>4, NextJob DEF Over
<1>7. ASSUME jobs = {j}, Got(j), Waited({j}, ui.panel, ui.session, db.units, acts)
      PROVE  Taken(j, jobs', ui.panel, ui'.panel, ui.session, ui'.session, db.units, acts)
  <2>1. PICK p, q, units, c, S : p = ui.panel /\ q = ui'.panel /\ units = db.units /\ c = Chunk(j) /\ S = Arg(j)[2]
    OBVIOUS
  <2>2. StoryJob(j, p, units) /\ StoryShown(p, {j}, units, acts)
    BY <1>7, <2>1 DEF Waited, ScoutJob
  <2>3. /\ p.name = "story" /\ p.result # Nothing /\ Arg(j)[1] = p.result /\ S # {} /\ S \subseteq 1..Chunks
        /\ \A k \in S : k = c \/ <<p.result, k>> \notin ChunkNames(units)
    BY <1>1, <2>1, <2>2 DEF StoryJob
  <2>4. /\ p.n \in 0..acts + 1 /\ j.n >= p.n /\ p.result \in 0..acts
        /\ \A k \in 1..Chunks : <<p.result, k>> \in ChunkNames(units) => k \in p.added \/ Marks(j, k)
    BY <2>2, <2>3 DEF StoryShown
  <2>5. \A k : Marks(j, k) => k = c
    BY <1>1, <2>1 DEF Marks, StoryOps
  <2>6. j.code = "ok" /\ InPanel(j, "story")
    BY <1>7, <2>1, <2>3, <2>4 DEF Got, InPanel
  <2>7. q.name = "story" /\ q.n = p.n /\ q.result = p.result /\ q.added = p.added \cup {c} /\ ui'.session = Body(j)
    BY <1>3, <1>5, <2>1, <2>3, <2>6, ScoutFields DEF Marked, ScoutShape
  <2>8. \A m \in jobs' : /\ m.n = j.n /\ m.stage = "sent" /\ m.op = j.op /\ Arg(m) = <<p.result, S \ {c}>>
                         /\ S # {c}
    BY <1>6, <1>7, <2>1, <2>3
  <2>9. StoryShown(q, jobs', units, acts)
    BY <2>4, <2>5, <2>7, <2>8 DEF StoryShown
  <2>10. ASSUME NEW m \in jobs' PROVE GridJob(m, units) /\ StoryJob(m, q, units)
    <3>1. m.op \in StoryOps /\ Arg(m)[1] = p.result /\ Arg(m)[2] = S \ {c} /\ S \ {c} # {}
      BY <1>1, <2>3, <2>8
    <3>2. GridJob(m, units)
      BY <3>1 DEF GridJob, StoryOps
    <3> QED BY <2>3, <2>7, <3>1, <3>2 DEF StoryJob, StoryOps
  <2>11. j.op \in SessionOps
    BY <1>1 DEF SessionOps
  <2> QED BY <2>1, <2>7, <2>9, <2>10, <2>11 DEF Taken
<1>8. Waits'
  BY <1>1, <1>6, <1>7, ScoutHears
<1> QED BY <1>1, <1>5, <1>8 DEF Hears, ScoutShape

\* What a handler of the grid goes on with is in the grid as it is now.
LEMMA RestAsks ==
  ASSUME NEW j, j.op \in GridOps, NEW units, NEW n, NEW panel, ScoutJob(j, panel, units, n), Got(j),
         NEW r \in GridRest(j), NEW m, m.op = r[1], Arg(m) = r[2]
  PROVE  GridJob(m, units) /\ StoryJob(m, panel, units)
<1>1. GridJob(j, units) /\ Body(j).units = units /\ j.code = "ok"
  BY DEF ScoutJob, SessionOps, Got
<1>2. CASE j.op = "sampleRow"
  <2>1. /\ m.op = "sampleRow" /\ Arg(m) = Arg(j) \ {Current(j)} /\ Arg(j) # {Current(j)}
        /\ Arg(j) # {} /\ Arg(j) \subseteq DOMAIN SampleRows
    BY <1>1, <1>2 DEF GridRest, GridJob
  <2> QED BY <2>1 DEF GridJob, StoryJob, StoryOps
<1>3. CASE j.op = "fillRow"
  <2>1. PICK rows : rows = Arg(j) \ {Current(j)} /\ rows \subseteq DOMAIN SampleRows
    BY <1>1, <1>3 DEF GridJob
  <2>2. m.op = "fillRow" /\ Arg(m) = rows /\ rows # {}
    BY <1>1, <1>3, <2>1 DEF GridRest, FillRows
  <2> QED BY <2>1, <2>2 DEF GridJob, StoryJob, StoryOps
<1>4. CASE j.op = "fillCells"
  <2>1. PICK i, todo : i = Current(j) /\ todo = Restrict(Arg(j), DOMAIN Arg(j) \ {i})
    OBVIOUS
  <2>2. DOMAIN todo = DOMAIN Arg(j) \ {i} /\ \A k \in DOMAIN todo : todo[k] = Arg(j)[k]
    BY <2>1 DEF Restrict
  <2>3. DOMAIN todo \subseteq DOMAIN units /\ \A k \in DOMAIN todo : \A f \in todo[k] : units[k].cells[f] = Blank
    BY <1>1, <1>4, <2>1, <2>2 DEF GridJob
  <2>4. r \in FillCells(todo, units)
    BY <1>1, <1>4, <2>1 DEF GridRest
  <2> QED BY <2>3, <2>4, FillAsks
<1> QED BY <1>1, <1>2, <1>3, <1>4 DEF GridRest

LEMMA GridHears ==
  ASSUME NEW j \in jobs, acts \in Nat, ScoutShape(ui, db), Waits, HearGrid(j)
  PROVE  ScoutShape(ui', db') /\ Waits'
<1>1. Hears /\ j.stage = "answered" /\ j.op \in GridOps
  BY DEF HearGrid
<1>2. PICK changed, saved :
        /\ changed = Changed(ui, j)
        /\ saved = IF j.op = "saveCell" /\ OfGrid(j) THEN [changed EXCEPT !.editing = Nothing] ELSE changed
  OBVIOUS
<1>3. /\ DOMAIN changed = DOMAIN ScoutUi /\ DOMAIN changed.panel = DOMAIN Closed
      /\ j.code = "ok" => changed.panel = ui.panel /\ changed.session = Body(j)
  <2>1. ScoutShape(Hidden(ui), db)
    BY ScoutFields DEF Hidden, ScoutShape
  <2> QED BY <1>2, <2>1, ScoutFields DEF Changed, ScoutShape
<1>4. DOMAIN saved = DOMAIN ScoutUi /\ saved.panel = changed.panel /\ saved.session = changed.session
  BY <1>2, <1>3, ScoutFields
<1>5. /\ ui' = saved \/ ui' = GridFree(saved, j)
      /\ IF GridRest(j) = {} THEN Over(j) ELSE \E r \in GridRest(j) : GoesOn(j, r[1], r[2])
  BY <1>2 DEF HearGrid
<1>6. DOMAIN ui' = DOMAIN ScoutUi /\ ui'.panel = changed.panel /\ ui'.session = changed.session
  BY <1>4, <1>5, ScoutFields DEF GridFree
<1>7. jobs' = jobs \ {j} \/ \E m : /\ jobs' = (jobs \ {j}) \cup {m} /\ m.n = j.n /\ m.stage = "sent"
                                   /\ \E r \in GridRest(j) : m.op = r[1] /\ Arg(m) = r[2]
  <2>1. CASE GridRest(j) = {}
    BY <1>5, <2>1 DEF Over
  <2>2. CASE GridRest(j) # {}
    <3>1. PICK r \in GridRest(j) : GoesOn(j, r[1], r[2])
      BY <1>5, <2>2
    <3> QED BY <3>1, NextJob
  <2> QED BY <2>1, <2>2
<1>8. ASSUME jobs = {j}, Got(j), Waited({j}, ui.panel, ui.session, db.units, acts)
      PROVE  Taken(j, jobs', ui.panel, ui'.panel, ui.session, ui'.session, db.units, acts)
  <2>1. ui'.panel = ui.panel /\ ui'.session = Body(j)
    BY <1>3, <1>6, <1>8 DEF Got
  <2>2. ScoutJob(j, ui.panel, db.units, acts)
    BY <1>8 DEF Waited
  <2>3. ASSUME NEW m \in jobs' PROVE GridJob(m, db.units) /\ StoryJob(m, ui'.panel, db.units)
    <3>1. PICK r \in GridRest(j) : m.op = r[1] /\ Arg(m) = r[2]
      BY <1>7, <1>8
    <3>2. GridJob(m, db.units) /\ StoryJob(m, ui.panel, db.units)
      BY <1>1, <1>8, <2>2, <3>1, RestAsks
    <3> QED BY <2>1, <3>2
  <2>4. j.op \in SessionOps /\ j.op \notin StoryOps \cup {"extract"}
    BY <1>1 DEF SessionOps, GridOps, StoryOps
  <2>5. StoryKept(ui.panel, ui'.panel)
    BY <2>1 DEF StoryKept
  <2> QED BY <2>1, <2>3, <2>4, <2>5 DEF Taken
<1>9. jobs' = jobs \ {j} \/ \E m : jobs' = (jobs \ {j}) \cup {m} /\ m.n = j.n /\ m.stage = "sent"
  BY <1>7
<1>10. Waits'
  BY <1>1, <1>8, <1>9, ScoutHears
<1>11. db' = db
  BY <1>1 DEF Hears
<1> QED BY <1>3, <1>6, <1>10, <1>11 DEF ScoutShape

LEMMA InterviewHears ==
  ASSUME NEW j \in jobs, acts \in Nat, ScoutShape(ui, db), Waits, HearSession(j) \/ HearGrid(j) \/ HearPanels(j)
  PROVE  ScoutShape(ui', db') /\ Waits'
BY SessionHears, GridHears, ElevationHears, ExtractHears, ChunkHears DEF HearPanels

-----------------------------------------------------------------------------
(* Where an interview begins, and its steps.                               *)

\* A session as it is made, or with rows a seed may have.
LEMMA InterviewBegins ==
  ASSUME NEW units \in SeedUnits \cup {<<>>}, NEW n \in Nat, NEW js, OneAtMost(js), NEW rows,
         \A j \in js : j.op = "session" /\ j.n \in 0..n /\ j.stage = "sent",
         NEW receipts, rows = Session(units, receipts)
  PROVE  ScoutShape(ScoutUi, rows) /\ Waited(js, ScoutUi.panel, ScoutUi.session, rows.units, n)
<1>0. PICK T : T = [name : PlainNames, cells : [Fields -> Words]]
  OBVIOUS
<1>1. units \in Seq(T)
  <2>1. CASE units \in SeedUnits
    BY <1>0, <2>1, SeedAssumption
  <2>2. CASE units = <<>>
    BY <2>2
  <2> QED BY <2>1, <2>2
<1>2. \A i \in DOMAIN units : units[i] \in [name : PlainNames, cells : [Fields -> Words]]
  <2>1. \A i \in DOMAIN units : units[i] \in T
    BY <1>1
  <2> QED BY <1>0, <2>1
<1>3. \A i \in DOMAIN units : DOMAIN units[i] = {"name", "cells"} /\ units[i].name \in PlainNames
  BY <1>2
<1>4. ChunkNames(units) = {}
  BY <1>3 DEF ChunkNames, Names
<1>5. Grid(units, n)
  BY <1>1, <1>3, <1>4 DEF Grid, IsTrail
<1>6. ScoutUi.panel.name = "none" /\ ScoutUi.session = Nothing /\ DOMAIN ScoutUi.panel = DOMAIN Closed
  BY DEF ScoutUi, Closed, Panel
<1>7. rows.units = units /\ DOMAIN rows = DOMAIN Session(<<>>, {})
  BY DEF Session
<1>8. ASSUME NEW j \in js PROVE ScoutJob(j, ScoutUi.panel, units, n)
  <2>1. Plain(j.op) /\ ~Got(j)
    BY DEF Plain, GridOps, StoryOps, Got
  <2>2. GridJob(j, units) /\ StoryJob(j, ScoutUi.panel, units)
    BY <2>1, PlainJob
  <2> QED BY <2>1, <2>2 DEF ScoutJob
<1>9. StoryShown(ScoutUi.panel, js, units, n) /\ SessionShown(ScoutUi.session, js, units)
  BY <1>6 DEF StoryShown, SessionShown
<1> QED BY <1>5, <1>6, <1>7, <1>8, <1>9 DEF ScoutShape, Waited

LEMMA NewSessionStep ==
  ASSUME page = "newSession", OtherPlaceInv, ScoutInv, ScoutAct
  PROVE  ScoutInv'
<1>0. "create" \notin ScoutOps /\ acts \in Nat /\ Creating(jobs, ui)
  BY OtherNames DEF OtherPlaceInv
<1>1. CASE page' = "scout"
  <2>1. PICK j, m : /\ page' = "scout" /\ db' = db /\ ui' = ScoutUi /\ acts' = acts
                    /\ jobs = {j} /\ jobs' = {m} /\ j.op = "create" /\ j.stage = "answered"
                    /\ Fresh(m, "session", Nothing) /\ m.n = j.n
    BY <1>0, <1>1, NewSessionPlaced
  <2>2. j.code = "ok"
    <3>1. \A i \in jobs : HearCreate(i) => i.code = "ok"
      BY <1>1 DEF HearCreate
    <3> QED BY <1>1, <2>1, <3>1, ScoutActs
  <2>3. j.n \in 0..acts /\ db = Session(<<>>, {})
    BY <2>1, <2>2 DEF ScoutInv, Got
  <2>4. \A i \in jobs' : i.op = "session" /\ i.n \in 0..acts /\ i.stage = "sent"
    BY <2>1, <2>3 DEF Fresh
  <2>5. OneAtMost(jobs')
    BY <2>1 DEF OneAtMost
  <2>6. ScoutShape(ScoutUi, db) /\ Waited(jobs', ScoutUi.panel, ScoutUi.session, db.units, acts)
    BY <1>0, <2>3, <2>4, <2>5, InterviewBegins
  <2>7. ScoutShape(ui', db') /\ Waits'
    BY <2>1, <2>6 DEF Waits
  <2> QED BY <1>1, <2>7 DEF ScoutInv
<1>2. CASE page' # "scout"
  <2>1. page' = "newSession"
    BY <1>0, <1>2, NewSessionPlaced
  <2>2. ASSUME ScoutClick \/ PanelsClick \/ Withdraw, NEW m \in jobs'
        PROVE  m.n \in 0..acts' /\ (Got(m) => db' = Session(<<>>, {}))
    <3>1. TypeName \/ CreateSession
      BY <2>2 DEF ScoutClick, LoadSession, GridClick, AddRow, LoadSamples, FillToHundred, EditCell, SaveCell,
         SessionDrawn, PanelsClick, Withdraw
    <3>2. CASE TypeName
      BY <2>2, <3>2 DEF TypeName, Looks, ScoutInv
    <3>3. CASE CreateSession
      <4>1. jobs = {} /\ Starts({<<"create", Nothing>>})
        BY <1>0, <3>3 DEF CreateSession, Creating
      <4>2. jobs' = jobs \cup {Job(r[1], r[2], acts + 1) : r \in {<<"create", Nothing>>}} /\ acts' = acts + 1
        BY <4>1 DEF Starts
      <4>3. m = Job("create", Nothing, acts + 1)
        BY <2>2, <4>1, <4>2
      <4>4. m.n = acts + 1 /\ m.stage = "sent"
        BY <4>3 DEF Job
      <4> QED BY <1>0, <4>2, <4>4 DEF Got
    <3> QED BY <3>1, <3>2, <3>3
  <2>3. ASSUME NEW j \in jobs, ServeCreate(j) \/ ServeGrid(j) \/ ServePanels(j), NEW m \in jobs'
        PROVE  m.n \in 0..acts' /\ (Got(m) => db' = Session(<<>>, {}))
    <3>1. jobs = {j} /\ j.op = "create" /\ JobShape(j)
      BY <1>0 DEF Creating, Placed
    <3>2. ServeCreate(j)
      BY <1>0, <2>3, <3>1 DEF ServeGrid, ServePanels, Sent, ScoutOps
    <3>3. Answers(j, "ok", <<>>, Session(<<>>, {})) /\ acts' = acts
      BY <3>2 DEF ServeCreate, Serves
    <3>4. \E code, body : m = [j EXCEPT !.stage = "answered", !.code = code, !.body = Under(j.op, body)]
                          /\ (code = "ok" => db' = Session(<<>>, {}))
      <4>1. PICK code, body : /\ jobs' = AnsweredWith(j, code, body)
                              /\ code = "ok" => db' = Session(<<>>, {})
        <5>1. \/ jobs' = AnsweredWith(j, "ok", <<>>) /\ db' = Session(<<>>, {})
              \/ jobs' = AnsweredWith(j, "lost", <<>>)
              \/ jobs' = AnsweredWith(j, "noKey", <<>>)
          BY <3>3 DEF Answers
        <5> QED BY <5>1
      <4>2. m \in {[j EXCEPT !.stage = "answered", !.code = code, !.body = Under(j.op, body)]}
        BY <2>3, <3>1, <4>1 DEF AnsweredWith
      <4> QED BY <4>1, <4>2
    <3>5. PICK code, body : m = [j EXCEPT !.stage = "answered", !.code = code, !.body = Under(j.op, body)]
                            /\ (code = "ok" => db' = Session(<<>>, {}))
      BY <3>4
    <3>6. m.n = j.n /\ m.code = code
      BY <3>1, <3>5 DEF JobShape, JobFields
    <3> QED BY <3>3, <3>5, <3>6 DEF ScoutInv, Got
  <2>4. ASSUME NEW j \in jobs, HearCreate(j)
        PROVE  jobs' \subseteq jobs /\ UNCHANGED <<acts, db>>
    BY <1>2, <2>4 DEF HearCreate, Over
  <2>5. ASSUME NEW j \in jobs, HearSession(j) \/ HearGrid(j) \/ HearPanels(j)
        PROVE  FALSE
    BY <1>0, <2>5 DEF HearSession, HearGrid, HearPanels, HearReplay, HearHeatmap, HearContradictions, HearExtract,
       HearChunk, HearPreview, HearReceipts, HearConsent, HearGenerate, Heard, Creating, Placed, ScoutOps
  <2>6. \A m \in jobs' : m.n \in 0..acts' /\ (Got(m) => db' = Session(<<>>, {}))
    BY <2>2, <2>3, <2>4, <2>5 DEF ScoutAct, ScoutInv
  <2> QED BY <2>1, <2>6 DEF ScoutInv
<1> QED BY <1>1, <1>2

LEMMA ScoutStep ==
  ASSUME PlaceInv, OtherPlaceInv, ScoutInv, [Next]_vars
  PROVE  ScoutInv'
<1>1. CASE page' \notin {"newSession", "scout"}
  BY <1>1 DEF ScoutInv
<1>2. CASE page' \in {"newSession", "scout"}
  <2>1. page' \in OtherPages
    BY <1>2, OtherNames
  <2>2. CASE Aside /\ page' = page
    <3>1. UNCHANGED <<db, ui, tidy, calm, acts>> /\ jobs' \subseteq jobs
      BY <2>2 DEF Aside, HearAbandoned, vars
    <3>2. page = "scout" => jobs' = jobs
      BY <2>2 DEF Aside, HearAbandoned, vars, OtherPlaceInv, Alive
    <3> QED BY <2>2, <3>1, <3>2 DEF ScoutInv, Waits
  <2>3. CASE page \in RestPages /\ RestAct
    <3>1. page' = "newSession"
      BY <1>2, <2>3, RestActs, OtherNames
    <3>2. jobs' = {}
      BY <2>3, <3>1, RestPlaced, OtherNames DEF OtherPlaceInv
    <3> QED BY <3>1, <3>2 DEF ScoutInv
  <2>4. CASE page = "newSession" /\ ScoutAct
    BY <2>4, NewSessionStep
  <2>5. CASE page = "scout" /\ ScoutAct
    <3>1. acts \in Nat /\ Alive(jobs, ScoutOps) /\ ScoutShape(ui, db) /\ Waits
      BY <2>5, OtherNames DEF OtherPlaceInv, ScoutInv
    <3>2. page' = page
      BY <2>5, <3>1, ScoutPlaced
    <3>3. \A j \in jobs : JobShape(j) /\ j.op \in ScoutOps
      BY <3>1 DEF Alive, Placed
    <3>4. CASE ScoutClick \/ PanelsClick \/ Withdraw
      BY <2>5, <3>1, <3>2, <3>4, InterviewClicks DEF ScoutInv
    <3>5. CASE \E j \in jobs : ServeCreate(j) \/ ServeGrid(j) \/ ServePanels(j)
      BY <2>5, <3>1, <3>2, <3>3, <3>5, InterviewServed DEF ScoutInv
    <3>6. CASE \E j \in jobs : HearSession(j) \/ HearGrid(j) \/ HearPanels(j)
      BY <2>5, <3>1, <3>2, <3>6, InterviewHears DEF ScoutInv
    <3>7. ~ \E j \in jobs : HearCreate(j)
      BY <3>3, OtherNames DEF HearCreate, Heard
    <3> QED BY <2>5, <3>4, <3>5, <3>6, <3>7 DEF ScoutAct
  <2> QED BY <2>1, <2>2, <2>3, <2>4, <2>5, OtherActs
<1> QED BY <1>1, <1>2

-----------------------------------------------------------------------------
(* Where a page begins.                                                    *)

IInv == PlaceInv /\ SitInv /\ ChroInv /\ EvidenceInv /\ DenyInv /\ HelperInv

LEMMA MountedJobs ==
  ASSUME NEW p, NEW rows, NEW state, NEW ops, Mounted(p, rows, state, ops)
  PROVE  \A j \in jobs : j.op \in ops /\ Fresh(j, j.op, Nothing) /\ ~Got(j)
<1>1. jobs = {Job(op, Nothing, 0) : op \in ops}
  BY DEF Mounted
<1>2. ASSUME NEW op \in ops, NEW m, m = Job(op, Nothing, 0)
      PROVE  m.op \in ops /\ Fresh(m, m.op, Nothing) /\ ~Got(m)
  BY <1>2, JobMade DEF Fresh, Got
<1> QED BY <1>1, <1>2

LEMMA SitBegins ==
  ASSUME NEW unit, NEW pointers, NEW rows \in DeskRows,
         Mounted("sitClose", Sitting(unit, pointers, rows), SitUi, {"sitUnits"})
  PROVE  IInv
<1>1. page = "sitClose" /\ db = Sitting(unit, pointers, rows) /\ ui = SitUi
  BY DEF Mounted
<1>2. \A j \in jobs : j.op = "sitUnits" /\ Fresh(j, j.op, Nothing) /\ ~Got(j)
  BY MountedJobs
<1>3. PlaceInv
  <2>1. DOMAIN ui = FieldsOf["sitClose"]
    BY <1>1 DEF FieldsOf
  <2>2. DOMAIN db = TablesOf["sitClose"]
    BY <1>1 DEF TablesOf, Sitting
  <2>3. \A j \in jobs : JobShape(j) /\ j.op \in OpsOf["sitClose"]
    BY <1>2 DEF Fresh, OpsOf, SitOps
  <2> QED BY <1>1, <2>1, <2>2, <2>3 DEF PlaceInv
<1>4. SitStored(db.rows, db.column)
  <2>1. db.rows = rows /\ db.column = [f \in RowKeys |-> IF Settled(rows[f]) THEN InColumn(f, rows[f].value) ELSE <<"old">>]
    BY <1>1 DEF Sitting
  <2>2. DOMAIN rows = RowKeys /\ \A f \in RowKeys : rows[f] \in SitRatifications \cup {Nothing}
    BY DeskAssumption
  <2>3. \A x \in SitRatifications : RowShape(x)
    BY DEF SitRatifications, RowShape
  <2> QED BY <2>1, <2>2, <2>3 DEF SitStored
<1>5. SitSeen(ui.rows, db.rows)
  <2>1. ui.rows = Merged(NoRatifications)
    BY <1>1 DEF SitUi
  <2>2. DOMAIN ui.rows = RowKeys /\ \A f \in RowKeys : ui.rows[f].row = Nothing
    BY <2>1 DEF Merged, NoRatifications, SitRow
  <2> QED BY <2>2 DEF SitSeen, Known
<1>6. \A j \in jobs : SitJob(j, db.rows)
  BY <1>2 DEF SitJob, SitArg
<1> QED BY <1>1, <1>3, <1>4, <1>5, <1>6 DEF IInv, SitInv, ChroInv, EvidenceInv, DenyInv, HelperInv

LEMMA ChroBegins ==
  ASSUME NEW rows, rows = NewSitting \/ \E s \in Sentences : rows = SaidBefore(s),
         NEW look, NEW sample, NEW pack, NEW ops \in SUBSET {"seat", "ws"},
         Mounted("chro", rows, ChroUi(look, sample, pack), ops)
  PROVE  IInv
<1>1. page = "chro" /\ db = rows /\ ui = ChroUi(look, sample, pack)
  BY DEF Mounted
<1>2. \A j \in jobs : j.op \in {"seat", "ws"} /\ Fresh(j, j.op, Nothing) /\ ~Got(j)
  BY MountedJobs
<1>3. DOMAIN rows = {"session", "answers", "ws"}
  BY DEF NewSitting, SaidBefore
<1>4. PlaceInv
  <2>1. DOMAIN ui = FieldsOf["chro"]
    BY <1>1 DEF FieldsOf, ChroUi
  <2>2. DOMAIN db = TablesOf["chro"]
    BY <1>1, <1>3 DEF TablesOf
  <2>3. \A j \in jobs : JobShape(j) /\ j.op \in OpsOf["chro"]
    BY <1>2 DEF Fresh, OpsOf, ChroOps
  <2> QED BY <1>1, <2>1, <2>2, <2>3 DEF PlaceInv
<1>5. NoSample(NoAnswers.core)
  BY ChroAssumption DEF NoSample, NoAnswers, Core
<1>6. NoSample(rows.answers.core)
  <2>1. CASE rows = NewSitting
    BY <1>5, <2>1 DEF NewSitting
  <2>2. ASSUME NEW s \in Sentences, rows = SaidBefore(s)
        PROVE  NoSample(rows.answers.core)
    <3>1. rows.answers.core = [NoAnswers.core EXCEPT ![Head(CoreIds)] = s]
      BY <2>2 DEF SaidBefore, NoAnswers
    <3>2. \A q \in Core : rows.answers.core[q] \in {s, NoAnswers.core[q]}
      BY <3>1 DEF NoAnswers
    <3>3. s \notin Core
      BY ChroAssumption DEF Core
    <3> QED BY <1>5, <3>2, <3>3 DEF NoSample
  <2> QED BY <2>1, <2>2
<1>7. Draws(ui, ui, db.ws)
  <2>1. ui.ws = NoLine /\ ui.stored = NoAnswers.core /\ ui.confirmed = FALSE
    BY <1>1 DEF ChroUi
  <2>2. NoLine.confirmed = FALSE
    BY DEF NoLine, Intent
  <2> QED BY <1>5, <2>1, <2>2 DEF Draws, SeenLine, KnownLine
<1>8. \A j \in jobs : ChroJob(j, ui, db.ws)
  BY <1>2 DEF ChroJob, ChroArg, AnswersPut
<1> QED BY <1>1, <1>4, <1>6, <1>7, <1>8 DEF IInv, SitInv, ChroInv, EvidenceInv, DenyInv, HelperInv

LEMMA EvidenceBegins ==
  ASSUME Mounted("evidence", Evidence(Sheets \cup Pdfs, [u \in ToSet(ClaimUnits) |-> NoPointers]), EvidenceUi, EvidenceReads)
  PROVE  IInv
<1>1. /\ page = "evidence" /\ ui = EvidenceUi
      /\ db = Evidence(Sheets \cup Pdfs, [u \in ToSet(ClaimUnits) |-> NoPointers])
  BY DEF Mounted
<1>2. \A j \in jobs : j.op \in EvidenceReads /\ Fresh(j, j.op, Nothing) /\ ~Got(j)
  BY MountedJobs
<1>3. PlaceInv
  <2>1. DOMAIN ui = FieldsOf["evidence"]
    BY <1>1 DEF FieldsOf
  <2>2. DOMAIN db = TablesOf["evidence"]
    BY <1>1 DEF TablesOf, Evidence
  <2>3. \A j \in jobs : JobShape(j) /\ j.op \in OpsOf["evidence"]
    BY <1>2 DEF Fresh, OpsOf, EvidenceOps, EvidenceReads
  <2> QED BY <1>1, <2>1, <2>2, <2>3 DEF PlaceInv
<1>4. db.rows = [u \in Claimed |-> NoPointers]
  BY <1>1 DEF Evidence, Claimed
<1>5. DOMAIN NoPointers = Pointerable /\ \A files : GoodRows(NoPointers, files)
  BY DEF NoPointers, GoodRows, GoodRow
<1>6. RowsSeen(ui.read, db.files) /\ RowsSeen(ui.claims, db.files)
  <2>1. ui.read = <<>> /\ ui.claims = <<>>
    BY <1>1 DEF EvidenceUi
  <2>2. DOMAIN ui.read = {} /\ DOMAIN ui.claims = {}
    BY <2>1
  <2> QED BY <2>2 DEF RowsSeen
<1>7. \A j \in jobs : ClaimsJob(j, db.files)
  BY <1>2 DEF ClaimsJob
<1> QED BY <1>1, <1>3, <1>4, <1>5, <1>6, <1>7 DEF IInv, SitInv, ChroInv, EvidenceInv, DenyInv, HelperInv

LEMMA DeskBegins ==
  ASSUME NEW units, \/ Mounted("deny", Desk(units), DenyUi, {})
                    \/ Mounted("docCheck", Desk(units), HelperUi, {})
  PROVE  IInv
<1>1. page \in {"deny", "docCheck"} /\ db = Desk(units) /\ jobs = {}
  BY DEF Mounted
<1>2. page = "deny" => ui = DenyUi
  BY DEF Mounted
<1>3. page = "docCheck" => ui = HelperUi
  BY DEF Mounted
<1>4. PlaceInv
  BY <1>1, <1>2, <1>3 DEF PlaceInv, FieldsOf, TablesOf, Desk
<1>5. db.files = 0 /\ db.checks = <<>>
  BY <1>1 DEF Desk
<1>6. IsTrail(db.checks)
  <2>1. <<>> \in Seq({})
    OBVIOUS
  <2> QED BY <1>5, <2>1 DEF IsTrail
<1>7. page = "deny" => DenySeen(ui, db.files, db.checks)
  BY <1>2, ResultAssumption DEF DenyUi, DenySeen
<1>8. page = "docCheck" => ~ui.uploaded
  BY <1>3 DEF HelperUi
<1> QED BY <1>1, <1>4, <1>5, <1>6, <1>7, <1>8 DEF IInv, SitInv, ChroInv, EvidenceInv, DenyInv, HelperInv

LEMMA Begins == Init => IInv
<1> SUFFICES ASSUME Init PROVE IInv
  OBVIOUS
<1>1. CASE page \notin Desks
  BY <1>1 DEF IInv, PlaceInv, SitInv, ChroInv, EvidenceInv, DenyInv, HelperInv, Desks
<1>2. CASE \E v \in VersionRows : Mounted("versions", v, VersionsUi, {"versions"})
  BY <1>1, <1>2 DEF Mounted, Desks
<1>3. CASE \/ Mounted("scope", EmptyBoard, GridUi, {"board"})
           \/ Mounted("spec", <<>>, CheckUi, {"specUnits"})
           \/ Mounted("newSession", Nothing, NewSessionUi(""), {})
  BY <1>1, <1>3 DEF Mounted, Desks
<1>4. CASE \E units \in SeedUnits : Mounted("scout", Session(units, {1}), ScoutUi, {"session"})
  BY <1>1, <1>4 DEF Mounted, Desks
<1>5. CASE \E unit \in BOOLEAN, pointers \in {{}, {SitRows[1]}}, rows \in DeskRows :
             Mounted("sitClose", Sitting(unit, pointers, rows), SitUi, {"sitUnits"})
  BY <1>5, SitBegins
<1>6. ASSUME NEW s \in Sentences, Mounted("chro", SaidBefore(s), ChroUi(FALSE, TRUE, Checks), {"seat", "ws"})
      PROVE  IInv
  <2>1. PICK rows, ops, look, sample :
          rows = SaidBefore(s) /\ ops = {"seat", "ws"} /\ look = FALSE /\ sample = TRUE
    OBVIOUS
  <2>2. Mounted("chro", rows, ChroUi(look, sample, Checks), ops)
    BY <1>6, <2>1
  <2>3. \E t \in Sentences : rows = SaidBefore(t)
    BY <2>1
  <2>4. ops \in SUBSET {"seat", "ws"}
    BY <2>1
  <2> QED BY <2>2, <2>3, <2>4, ChroBegins
<1>7. CASE Mounted("chro", NewSitting, ChroUi(FALSE, FALSE, Checks), {"seat", "ws"})
  <2>1. PICK rows, ops, look : rows = NewSitting /\ ops = {"seat", "ws"} /\ look = FALSE
    OBVIOUS
  <2>2. Mounted("chro", rows, ChroUi(look, look, Checks), ops)
    BY <1>7, <2>1
  <2> QED BY <2>1, <2>2, ChroBegins
<1>8. ASSUME NEW sample \in BOOLEAN, Mounted("chro", NewSitting, ChroUi(TRUE, sample, {}), {})
      PROVE  IInv
  <2>1. PICK rows, none, look : rows = NewSitting /\ none = {} /\ look = TRUE
    OBVIOUS
  <2>2. Mounted("chro", rows, ChroUi(look, sample, none), none)
    BY <1>8, <2>1
  <2>3. none \in SUBSET {"seat", "ws"}
    BY <2>1
  <2> QED BY <2>1, <2>2, <2>3, ChroBegins
<1>9. CASE \/ \E units \in {<<>>, <<FALSE>>, <<FALSE, TRUE>>} : Mounted("deny", Desk(units), DenyUi, {})
           \/ Mounted("docCheck", Desk(<<>>), HelperUi, {})
  BY <1>9, DeskBegins
<1> QED BY <1>2, <1>3, <1>4, <1>5, <1>6, <1>7, <1>8, <1>9, EvidenceBegins DEF Init

LEMMA ScoutBegins == Init => OtherPlaceInv /\ ScoutInv
<1> SUFFICES ASSUME Init PROVE OtherPlaceInv /\ ScoutInv
  OBVIOUS
<1>1. acts = 0
  BY DEF Init, Mounted
<1>2. CASE page \in Desks
  <2>1. page \notin OtherPages
    BY <1>2, OtherNames
  <2> QED BY <1>2, <2>1, OtherNames DEF OtherPlaceInv, ScoutInv
<1>3. ASSUME NEW p \in {"versions", "scope", "spec"}, NEW rows, NEW state,
             NEW op \in {"versions", "board", "specUnits"}, Mounted(p, rows, state, {op})
      PROVE  OtherPlaceInv /\ ScoutInv
  <2>1. page = p /\ Placed(jobs, RestOps)
    <3>1. PICK ops : ops = {op}
      OBVIOUS
    <3>2. \A j \in jobs : j.op \in ops /\ Fresh(j, j.op, Nothing)
      BY <1>3, <3>1, MountedJobs
    <3>3. op \in RestOps
      BY DEF RestOps
    <3> QED BY <1>3, <3>1, <3>2, <3>3 DEF Mounted, Fresh, Placed
  <2>2. page \in RestPages
    BY <2>1 DEF RestPages
  <2> QED BY <1>1, <2>1, <2>2, OtherNames DEF OtherPlaceInv, ScoutInv
<1>4. CASE Mounted("newSession", Nothing, NewSessionUi(""), {})
  <2>1. page = "newSession" /\ jobs = {} /\ ui = NewSessionUi("")
    BY <1>4 DEF Mounted
  <2>2. Creating(jobs, ui)
    BY <2>1 DEF Creating, Placed, NewSessionUi
  <2> QED BY <1>1, <2>1, <2>2, OtherNames DEF OtherPlaceInv, ScoutInv
<1>5. ASSUME NEW units \in SeedUnits, Mounted("scout", Session(units, {1}), ScoutUi, {"session"})
      PROVE  OtherPlaceInv /\ ScoutInv
  <2>1. page = "scout" /\ db = Session(units, {1}) /\ ui = ScoutUi /\ jobs = {Job(op, Nothing, 0) : op \in {"session"}}
    BY <1>5 DEF Mounted
  <2>2. PICK m : m = Job("session", Nothing, 0)
    OBVIOUS
  <2>3. jobs = {m} /\ m.op = "session" /\ m.n = 0 /\ m.stage = "sent" /\ JobShape(m) /\ m.live
    <3>1. m.op = "session" /\ m.stage = "sent" /\ JobShape(m)
      BY <2>2, JobMade
    <3> QED BY <2>1, <2>2, <3>1 DEF Job
  <2>4. Alive(jobs, ScoutOps)
    BY <2>3 DEF Alive, Placed, ScoutOps
  <2>5. OneAtMost(jobs) /\ \A j \in jobs : j.op = "session" /\ j.n \in 0..acts /\ j.stage = "sent"
    BY <1>1, <2>3 DEF OneAtMost
  <2>6. ScoutShape(ScoutUi, db) /\ Waited(jobs, ScoutUi.panel, ScoutUi.session, db.units, acts)
    BY <1>1, <2>1, <2>5, InterviewBegins
  <2> QED BY <1>1, <2>1, <2>4, <2>6, OtherNames DEF OtherPlaceInv, ScoutInv, Waits
<1>6. CASE page \notin Desks
  <2>1. \/ \E v \in VersionRows : Mounted("versions", v, VersionsUi, {"versions"})
        \/ Mounted("scope", EmptyBoard, GridUi, {"board"})
        \/ Mounted("spec", <<>>, CheckUi, {"specUnits"})
        \/ Mounted("newSession", Nothing, NewSessionUi(""), {})
        \/ \E units \in SeedUnits : Mounted("scout", Session(units, {1}), ScoutUi, {"session"})
    BY <1>6 DEF Init, Mounted, Desks
  <2>2. CASE \E v \in VersionRows : Mounted("versions", v, VersionsUi, {"versions"})
    BY <1>3, <2>2
  <2>3. CASE Mounted("scope", EmptyBoard, GridUi, {"board"})
    BY <1>3, <2>3
  <2>4. CASE Mounted("spec", <<>>, CheckUi, {"specUnits"})
    <3>1. PICK rows : rows = <<>>
      OBVIOUS
    <3>2. Mounted("spec", rows, CheckUi, {"specUnits"})
      BY <2>4, <3>1
    <3> QED BY <1>3, <3>2
  <2> QED BY <1>4, <1>5, <2>1, <2>2, <2>3, <2>4
<1> QED BY <1>2, <1>6

-----------------------------------------------------------------------------
(* The theorems.                                                           *)

\* What the pages know of their rows, lines, pointers and checks stays true,
\* whatever is clicked, answered, lost, or written by others.
THEOREM Inductive == Spec => []IInv
<1>1. IInv /\ [Next]_vars => IInv'
  BY PlaceStep, SitStep, ChroStep, EvidenceStep, DeskStep DEF IInv
<1> QED BY Begins, <1>1, PTL DEF Spec

\* ChroSitting.tsx:148-156.  While samples are shown, no question has its own sample
\* for a stored answer, whichever request saved the list.
THEOREM SampleNeverSavedAlways == Spec => []SampleNeverSaved
<1>1. IInv => SampleNeverSaved
  BY DEF IInv, ChroInv, SampleNeverSaved, NoSample
<1> QED BY <1>1, Inductive, PTL

LEMMA KnownIsStored ==
  ASSUME IInv
  PROVE  ConfirmedIsStored
<1>1. ASSUME page = "sitClose", NEW f \in RowKeys, Settled(ui.rows[f].row)
      PROVE  db.rows[f] = ui.rows[f].row /\ db.column[f] = InColumn(f, ui.rows[f].row.value)
  <2>1. Known(ui.rows[f].row, f, db.rows) /\ SitStored(db.rows, db.column)
    BY <1>1 DEF IInv, SitInv, SitSeen
  <2>2. db.rows[f] = ui.rows[f].row
    BY <1>1, <2>1 DEF Known, Settled
  <2>3. db.column[f] = InColumn(f, db.rows[f].value)
    BY <1>1, <2>1, <2>2 DEF SitStored
  <2> QED BY <2>2, <2>3
<1>2. page = "chro" /\ ui.confirmed => db.ws.confirmed /\ db.ws.label = ui.label
  BY DEF IInv, ChroInv, Draws, SeenLine
<1>3. page = "deny" /\ ui.cleared # Nothing => ClearedByEvidence
  BY DEF IInv, DenyInv, DenySeen, WasCleared, ClearedByEvidence
<1>4. page = "docCheck" /\ ui.uploaded => db.files > 0
  BY DEF IInv, HelperInv
<1> QED BY <1>1, <1>2, <1>3, <1>4 DEF ConfirmedIsStored

\* OfferDeskSitClose.tsx:117-145, ChroSitting.tsx:125-141, 247-264, OfferDeskSpecDeny.tsx:79-110.
\* What a page shows as confirmed is stored so, in the row and in the column of the
\* unit; what it shows as cleared is in the audit trail, after the denial it clears.
THEOREM ConfirmedIsStoredAlways == Spec => []ConfirmedIsStored
BY KnownIsStored, Inductive, PTL

\* EvidenceClaims.tsx:79-104, pointers.ts:80.  What is drawn as a fact is a place in a
\* file that is stored and opens, with words that stand there.
THEOREM FactsOpenAlways == Spec => []FactsOpen
<1>1. IInv => FactsOpen
  <2>1. CASE page = "evidence"
    BY <2>1, GoodFacts DEF IInv
  <2>2. CASE page # "evidence"
    BY <2>2 DEF FactsOpen
  <2> QED BY <2>1, <2>2
<1> QED BY <1>1, Inductive, PTL

\* What an interview shows and asks for agrees with its rows, wherever it began.
THEOREM InterviewInductive == Spec => [](IInv /\ OtherPlaceInv /\ ScoutInv)
<1>1. IInv /\ OtherPlaceInv /\ ScoutInv /\ [Next]_vars => (IInv /\ OtherPlaceInv /\ ScoutInv)'
  BY PlaceStep, SitStep, ChroStep, EvidenceStep, DeskStep, OtherPlaceStep, ScoutStep DEF IInv
<1> QED BY Begins, ScoutBegins, <1>1, PTL DEF Spec

\* StoryToStructure.tsx:55, 68.  One chunk of one story is one row at most, added
\* alone or with the rest, where whoever clicks waits for every answer.
THEOREM AddedOnceAlways == Spec => []AddedOnce
<1>1. ScoutInv => AddedOnce
  BY DEF ScoutInv, Waits, Waited, Grid, AddedOnce, PlainNames
<1> QED BY <1>1, InterviewInductive, PTL

\* Only a request that is served writes to the grid.
LEMMA GridWritten ==
  ASSUME PlaceInv, OtherPlaceInv, page = "scout", [Next]_vars
  PROVE  \/ db' = db \/ db' = [db EXCEPT !.revoked = db'.revoked]
         \/ \E j \in jobs : ServeCreate(j) \/ ServeGrid(j) \/ ServePanels(j)
<1>1. \A j \in jobs : j.op \in ScoutOps
  BY OtherNames DEF OtherPlaceInv, Alive, Placed
<1>2. page' \in OtherPages
  <2>1. page' = page
    <3>1. CASE Aside
      BY <3>1 DEF Aside, HearAbandoned, vars
    <3>2. CASE RestAct
      BY <1>1, <3>2, RestActs, OtherNames
    <3>3. CASE ScoutAct
      BY <3>3, ScoutPlaced, OtherNames DEF OtherPlaceInv
    <3> QED BY <3>1, <3>2, <3>3, EveryAct, SitActs, ChroActs, EvidenceActs, DeskActs
  <2> QED BY <2>1, OtherNames
<1>3. Aside \/ ScoutAct
  BY <1>2, OtherActs, OtherNames
<1>4. CASE Aside
  BY <1>4 DEF Aside, HearAbandoned, vars
<1>5. CASE ScoutClick \/ PanelsClick
  BY <1>5 DEF ScoutClick, GridClick, TypeName, CreateSession, LoadSession, AddRow, LoadSamples, FillToHundred,
     EditCell, SaveCell, PanelsClick, OpenElevation, CloseElevation, Rebuild, Resolve, Extract, AddOne, AddAll,
     Attach, CreateAndAttach, Generate, PanelClick, Clicks, Looks
<1>6. CASE Withdraw
  <2>1. PICK r : db' = [db EXCEPT !.revoked = @ \cup {r}]
    BY <1>6 DEF Withdraw
  <2>2. CASE "revoked" \in DOMAIN db
    BY <2>1, <2>2
  <2>3. CASE "revoked" \notin DOMAIN db
    BY <2>1, <2>3
  <2> QED BY <2>2, <2>3
<1>7. ASSUME NEW j \in jobs, HearCreate(j) \/ HearSession(j) \/ HearGrid(j) \/ HearPanels(j)
      PROVE  db' = db
  BY <1>7 DEF HearCreate, HearSession, HearGrid, HearPanels, HearReplay, HearHeatmap, HearContradictions, HearExtract,
     HearChunk, HearPreview, HearReceipts, HearConsent, HearGenerate, Hears
<1> QED BY <1>3, <1>4, <1>5, <1>6, <1>7 DEF ScoutAct

\* WorkCaptureGrid.tsx:100.  Filling the grid, samples and stories leave words where they
\* are, where whoever clicks waits for every answer and nothing is lost.
THEOREM HandWordsKeptAlways == Spec => HandWordsKept
<1> DEFINE Stays == page = "scout" /\ tidy /\ calm => WordsChangeBySave
<1>1. IInv /\ OtherPlaceInv /\ ScoutInv /\ [Next]_vars => Stays
  <2> SUFFICES ASSUME IInv, OtherPlaceInv, ScoutInv, [Next]_vars, page = "scout", tidy, calm
               PROVE  \A i \in DOMAIN db.units, f \in Fields :
                        db.units[i].cells[f] \notin {Blank, db'.units[i].cells[f]} =>
                          \E j \in jobs : j.op = "saveCell" /\ Arg(j)[1] = i /\ Arg(j)[2] = f
    BY DEF WordsChangeBySave
  <2>1. /\ acts \in Nat /\ DOMAIN db = DOMAIN Session(<<>>, {})
        /\ Waited(jobs, ui.panel, ui.session, db.units, acts)
        /\ \A j \in jobs : j.op \in ScoutOps
    BY OtherNames DEF OtherPlaceInv, ScoutInv, ScoutShape, Waits, Alive, Placed
  <2>2. CASE db' = db \/ db' = [db EXCEPT !.revoked = db'.revoked]
    <3>1. db'.units = db.units
      BY <2>1, <2>2, ScoutFields
    <3> QED BY <3>1
  <2>3. ASSUME NEW j \in jobs, ServeCreate(j) \/ ServeGrid(j) \/ ServePanels(j)
        PROVE  \/ db'.units = db.units
               \/ WordsStay(j, db.units, db'.units)
    <3>1. PICK body, rows : Outcome(j, body, rows)
      BY <2>1, <2>3, InterviewServes
    <3>2. jobs = {j}
      BY <2>1, OneJob
    <3>3. WordsStay(j, db.units, rows.units)
      BY <2>1, <3>1, <3>2 DEF Outcome
    <3>4. db' \in {db, rows}
      BY <3>1 DEF Outcome, Answers
    <3> QED BY <3>3, <3>4
  <2>4. CASE \E j \in jobs : ServeCreate(j) \/ ServeGrid(j) \/ ServePanels(j)
    <3>1. PICK j \in jobs : db'.units = db.units \/ WordsStay(j, db.units, db'.units)
      BY <2>3, <2>4
    <3> QED BY <3>1 DEF WordsStay
  <2> QED BY <2>2, <2>4, GridWritten DEF IInv
<1>2. IInv /\ OtherPlaceInv /\ ScoutInv /\ [Next]_vars => [Stays]_vars
  BY <1>1
<1> QED BY <1>2, InterviewInductive, PTL DEF Spec, HandWordsKept

-----------------------------------------------------------------------------
(* What a page shows is what is stored, or a request that is under way     *)
(* still owes it: where whoever clicks waits, nothing is lost, and nobody  *)
(* else writes.                                                            *)

DetailOf(rows) == [passed |-> rows.passed, ratified |-> rows.ratified]

VersionsOwed(js, u, rows) ==
  /\ OneAtMost(js)
  /\ DOMAIN u = DOMAIN VersionsUi
  /\ DOMAIN rows = {"passed", "ratified", "approved"}
  /\ \A j \in js : /\ j.live /\ j.op = "versions"
                   /\ j.stage = "answered" => Got(j) /\ Body(j) = DetailOf(rows)
  /\ js = {} => u.rows = DetailOf(rows)

GenomeOps == {"gqs", "objects", "units", "unit", "index", "ratifyWhole", "ratifyBo"}

Ratifies(j) == Got(j) /\ j.op \in {"ratifyWhole", "ratifyBo"}

GenomeBody(op, arg, body, rows) ==
  /\ op = "gqs" => body = DetailOf(rows)
  /\ op = "objects" => body = ObjectsOf(rows)
  /\ op = "units" => body = UnitsOf[arg]
  /\ op = "unit" => body = arg

GenomeJob(j, u, rows) ==
  /\ j.live /\ j.op \in GenomeOps
  /\ j.stage = "answered" => Got(j) /\ GenomeBody(j.op, Arg(j), Body(j), rows)
  /\ j.op = "units" => Arg(j) = u.selected
  /\ j.op = "unit" => Arg(j) \in UnitsOf[u.selected]

GenomeOwed(js, u, rows) ==
  /\ OneAtMost(js)
  /\ DOMAIN u = DOMAIN GenomeUi
  /\ DOMAIN rows = {"passed", "ratified", "approved"}
  /\ \A j \in js : GenomeJob(j, u, rows)
  /\ u.gqs = DetailOf(rows) \/ \E j \in js : j.op = "gqs" \/ Ratifies(j)
  /\ u.objects = ObjectsOf(rows) \/ \E j \in js : j.op \in {"gqs", "objects"} \/ Ratifies(j)
  /\ u.selected # Nothing => u.units = UnitsOf[u.selected] \/ \E j \in js : j.op = "units"
  /\ u.unit # Nothing => u.unit \in UnitsOf[u.selected]

BoardShape(board) == DOMAIN board = Subs /\ \A s \in Subs : DOMAIN board[s] = {"in_scope", "owner_name"}

\* A change of a card that is on screen, which is busy until it is answered.
ChangeOf(j, u, rows) ==
  /\ Arg(j).sub \in Subs \cap u.busy
  /\ Arg(j).field \in {"in_scope", "owner_name"}
  /\ Arg(j).field = "owner_name" => u.draft[Arg(j).sub] = NewValue(Arg(j))
  /\ u.data # Nothing
  /\ IF Got(j) THEN BoardShape(u.data) /\ rows = Patched(u.data, Arg(j)) ELSE u.data = rows

ScopeJob(j, u, rows) ==
  /\ j.op \in {"board", "patch"}
  /\ j.live <=> u.fn = "hr"
  /\ j.stage = "answered" => Got(j) /\ Body(j) = rows
  /\ j.op = "patch" /\ j.live => ChangeOf(j, u, rows)

Renames(j, s) == j.op = "patch" /\ Arg(j).sub = s /\ Arg(j).field = "owner_name"

ScopeOwed(js, u, rows) ==
  /\ OneAtMost(js)
  /\ DOMAIN u = DOMAIN GridUi /\ DOMAIN u.draft = Subs /\ u.focus \in Subs \cup {Nothing}
  /\ BoardShape(rows)
  /\ \A j \in js : ScopeJob(j, u, rows)
  /\ u.fn # "hr" => u.data = Nothing
  /\ u.fn = "hr" => \/ u.data = rows
                    \/ u.data = Nothing /\ \E j \in js : j.op = "board"
                    \/ \E j \in js : j.op = "patch" /\ Got(j)
  /\ u.data # Nothing => \A s \in Subs : u.focus # s =>
       u.draft[s] = u.data[s].owner_name \/ \E j \in js : Renames(j, s)

SpecOwed(js, u, rows) ==
  /\ OneAtMost(js)
  /\ DOMAIN u = DOMAIN CheckUi
  /\ \A j \in js : /\ j.live /\ j.op \in {"specUnits", "check", "checks"}
                   /\ j.stage = "answered" => Got(j)
                   /\ j.op = "checks" /\ Got(j) => Body(j) = rows
  /\ \/ u.checks = Nothing \/ u.checks = rows
     \/ \E j \in js : j.op = "checks" \/ (j.op = "check" /\ Got(j))

\* Beside what is waited for.
ReplayOps == {"replay", "rebuild"}
ListOps == {"contradictions", "resolve"}

ScoutBody(op, body, rows) ==
  /\ op \in SessionOps => body = SessionOut(rows)
  /\ op \in ReplayOps => body = rows.timeline
  /\ op = "contradictions" => body = rows.contradictions

ScoutOwed(js, u, rows, n) ==
  /\ \A j \in js : /\ Got(j) => ScoutBody(j.op, Body(j), rows)
                   /\ j.n >= u.panel.n
                   /\ j.op \in ReplayOps => u.panel.name = "replay"
                   /\ j.op \in ListOps => u.panel.name = "contradictions"
  /\ u.panel.n \in 0..n + 1
  /\ \/ u.session = Nothing \/ u.session = SessionOut(rows)
     \/ \E j \in js : Got(j) /\ j.op \in SessionOps
  /\ u.panel.name = "replay" => u.panel.data = rows.timeline \/ \E j \in js : j.op \in ReplayOps
  /\ u.panel.name = "contradictions" => u.panel.data = rows.contradictions \/ \E j \in js : j.op \in ListOps

\* A draft is made of the rows as they are, of a field that has none.
DraftOf(j, rows) ==
  /\ Arg(j).pointers = rows.pointers
  /\ Arg(j).field \in RowKeys /\ Arg(j).found[Arg(j).field] = Nothing
  /\ IF Got(j) THEN rows.rows = [Arg(j).found EXCEPT ![Arg(j).field] = Body(j)] ELSE Arg(j).found = rows.rows

ConfirmOf(j, u, rows) ==
  /\ Arg(j).field \in RowKeys
  /\ \A f \in RowKeys \ {Arg(j).field} : u.rows[f] = SitRow(rows.rows[f])
  /\ IF Got(j) THEN Body(j) = rows.rows[Arg(j).field]
     ELSE /\ u.rows[Arg(j).field] = SitRow(rows.rows[Arg(j).field])
          /\ rows.rows[Arg(j).field] # Nothing /\ Writable(rows.rows[Arg(j).field])

SitOwedJob(j, u, rows) ==
  /\ j.live /\ j.op # "reread"
  /\ j.stage = "answered" => Got(j)
  /\ j.op = "list" /\ Got(j) => Body(j) = rows.rows
  /\ j.op = "pointers" => Arg(j) = rows.rows /\ (Got(j) => Body(j) = rows.pointers)
  /\ j.op = "draft" => DraftOf(j, rows)
  /\ j.op = "confirm" => ConfirmOf(j, u, rows)

SitOwed(js, u, rows) ==
  /\ OneAtMost(js)
  /\ \A j \in js : SitOwedJob(j, u, rows)
  /\ u.unit => u.rows = Merged(rows.rows) \/ \E j \in js : j.op \in {"list", "pointers", "draft"} \/ (j.op = "confirm" /\ Got(j))

LineOps == {"ensureWs", "draftLine", "confirmLine"}

SeatOps == {"seat", "newSeat", "answers"}

ChroOwedJob(j, rows) ==
  /\ j.live
  /\ Got(j) /\ j.op \in LineOps \cup {"ws"} => Body(j) = rows.ws
  /\ j.op = "ws" /\ j.stage = "answered" => Got(j)

\* One request, beside those that find the sitting.
ChroJobs(js, rows) ==
  /\ \A j \in js : ChroOwedJob(j, rows)
  /\ \A j, k \in js : j.op \notin SeatOps /\ k.op \notin SeatOps => j = k

LineTold(j) == j.op = "ws" \/ (Got(j) /\ j.op \in LineOps)

ChroOwed(js, u, rows) == ChroJobs(js, rows) /\ (u.look \/ u.ws = rows.ws \/ \E j \in js : LineTold(j))

EvidenceBody(op, arg, body, rows) ==
  /\ op = "claimUnits" => body = ClaimUnits
  /\ op = "claimFiles" => body = rows.files
  /\ op = "claims" => body = rows.rows[arg]
  /\ op = "catalogue" => body = Connected(rows)
  /\ op = "gaps" => body = rows.gaps

EvidenceJob(j, rows) ==
  /\ j.live
  /\ j.stage = "answered" => Got(j) /\ EvidenceBody(j.op, Arg(j), Body(j), rows)
  /\ j.op = "claims" => Arg(j) \in Claimed

BothKnown(u) == u.units # Nothing /\ u.files # Nothing

\* The units whose claims are being read.
Reading(js) == {Arg(j) : j \in {k \in js : k.op = "claims"}}

\* Once both lists are known, each unit was read, is read, or waits for a place in the pool.
PoolOwes(reading, u, rows) ==
  /\ IsTrail(u.queue) /\ ToSet(u.queue) \subseteq Claimed
  /\ DOMAIN u.read \subseteq Claimed /\ \A x \in DOMAIN u.read : u.read[x] = rows.rows[x]
  /\ BothKnown(u) => Claimed \subseteq DOMAIN u.read \cup ToSet(u.queue) \cup reading
  /\ u.queue # <<>> => reading # {}
  /\ reading # {} => BothKnown(u)
  /\ BothKnown(u) => u.claims = rows.rows \/ reading # {}

Asks(js, op) == \E j \in js : j.op = op

ListsOwed(js, u, rows) ==
  /\ u.units = ClaimUnits \/ (u.units = Nothing /\ u.loading /\ Asks(js, "claimUnits"))
  /\ u.files = rows.files \/ (u.files = Nothing /\ u.loading /\ Asks(js, "claimFiles"))
  /\ u.catalogue = Connected(rows) \/ Asks(js, "catalogue")
  /\ u.gaps = rows.gaps \/ Asks(js, "gaps")

EvidenceOwed(js, u, rows) ==
  /\ rows.rows = [x \in Claimed |-> rows.rows[x]] /\ rows.files # Nothing
  /\ \A j \in js : EvidenceJob(j, rows)
  /\ ListsOwed(js, u, rows)
  /\ PoolOwes(Reading(js), u, rows)

ShownInv ==
  tidy /\ calm =>
    /\ page = "versions" => VersionsOwed(jobs, ui, db)
    /\ page = "genome" => GenomeOwed(jobs, ui, db)
    /\ page = "scope" => ScopeOwed(jobs, ui, db)
    /\ page = "spec" => SpecOwed(jobs, ui, db)
    /\ page = "scout" => ScoutOwed(jobs, ui, db, acts)
    /\ page = "sitClose" => SitOwed(jobs, ui, db)
    /\ page = "chro" => ChroOwed(jobs, ui, db)
    /\ page = "evidence" => EvidenceOwed(jobs, ui, db)
-----------------------------------------------------------------------------
(* Requests of a visitor who waits, while nothing is lost.                 *)

\* Nobody becomes patient, and nothing that was lost is found.
LEMMA PatientClick ==
  ASSUME NEW requests, Starts(requests), tidy'
  PROVE  tidy /\ jobs = {}
BY DEF Starts

LEMMA PatientStart ==
  ASSUME NEW op, NEW arg, Starts({<<op, arg>>}), tidy'
  PROVE  /\ tidy /\ jobs = {} /\ acts' = acts + 1
         /\ \E m : jobs' = {m} /\ Fresh(m, op, arg) /\ m.live /\ m.n = acts + 1 /\ ~Got(m)
<1>1. tidy /\ jobs = {} /\ acts' = acts + 1
  BY DEF Starts
<1>2. PICK m : m = Job(op, arg, acts + 1)
  OBVIOUS
<1>3. Fresh(m, op, arg) /\ m.live /\ m.n = acts + 1 /\ ~Got(m)
  BY <1>2, JobMade DEF Fresh, Got, Job
<1>4. jobs' = jobs \cup {Job(r[1], r[2], acts + 1) : r \in {<<op, arg>>}}
  BY DEF Starts
<1>5. jobs' = {m}
  BY <1>1, <1>2, <1>4
<1> QED BY <1>1, <1>3, <1>5

LEMMA PatientNext ==
  ASSUME NEW j, NEW op, NEW arg, GoesOn(j, op, arg)
  PROVE  \E m : /\ jobs' = (jobs \ {j}) \cup {m}
                /\ Fresh(m, op, arg) /\ m.live /\ m.n = j.n /\ ~Got(m)
<1>1. PICK m : m = Job(op, arg, j.n)
  OBVIOUS
<1>2. Fresh(m, op, arg) /\ m.live /\ m.n = j.n /\ ~Got(m)
  BY <1>1, JobMade DEF Fresh, Got, Job
<1> QED BY <1>1, <1>2 DEF GoesOn

LEMMA PatientAnswer ==
  ASSUME NEW j, JobShape(j), NEW code, NEW body, NEW rows, Answers(j, code, body, rows), calm'
  PROVE  /\ calm /\ db' = rows
         /\ \E m : /\ jobs' = (jobs \ {j}) \cup {m}
                   /\ m.op = j.op /\ Arg(m) = Arg(j) /\ m.n = j.n /\ m.live = j.live
                   /\ m.stage = "answered" /\ m.code = code /\ Body(m) = body
<1>1. calm /\ db' = rows /\ jobs' = AnsweredWith(j, code, body)
  BY DEF Answers
<1>2. PICK m : m = [j EXCEPT !.stage = "answered", !.code = code, !.body = Under(j.op, body)]
  OBVIOUS
<1>3. /\ m.op = j.op /\ m.arg = j.arg /\ m.n = j.n /\ m.live = j.live
      /\ m.stage = "answered" /\ m.code = code /\ m.body = Under(j.op, body)
  BY <1>2 DEF JobShape, JobFields
<1>4. Arg(m) = Arg(j) /\ Body(m) = body
  BY <1>3 DEF Arg, Body, Under
<1>5. jobs' = (jobs \ {j}) \cup {m}
  BY <1>1, <1>2 DEF AnsweredWith
<1> QED BY <1>1, <1>3, <1>4, <1>5

LEMMA OnlyJob ==
  ASSUME NEW js, OneAtMost(js), NEW j \in js
  PROVE  js = {j}
BY DEF OneAtMost

\* The only request under way, and its answer.
LEMMA OnlyAnswer ==
  ASSUME NEW j \in jobs, OneAtMost(jobs), JobShape(j), NEW body, NEW rows, Answers(j, "ok", body, rows), calm'
  PROVE  /\ db' = rows /\ jobs = {j}
         /\ \E m : /\ jobs' = {m}
                   /\ m.op = j.op /\ Arg(m) = Arg(j) /\ m.n = j.n /\ m.live = j.live
                   /\ m.stage = "answered" /\ Got(m) /\ Body(m) = body
<1>1. jobs = {j}
  BY OnlyJob
<1>2. PICK m : /\ jobs' = (jobs \ {j}) \cup {m}
               /\ m.op = j.op /\ Arg(m) = Arg(j) /\ m.n = j.n /\ m.live = j.live
               /\ m.stage = "answered" /\ m.code = "ok" /\ Body(m) = body
  BY PatientAnswer
<1>3. jobs' = {m} /\ Got(m)
  BY <1>1, <1>2 DEF Got
<1> QED BY <1>1, <1>2, <1>3, PatientAnswer

LEMMA OnlyNext ==
  ASSUME NEW j \in jobs, OneAtMost(jobs), NEW op, NEW arg, GoesOn(j, op, arg)
  PROVE  \E m : jobs' = {m} /\ Fresh(m, op, arg) /\ m.live /\ m.n = j.n /\ ~Got(m)
<1>1. jobs = {j}
  BY OnlyJob
<1>2. PICK m : /\ jobs' = (jobs \ {j}) \cup {m}
               /\ Fresh(m, op, arg) /\ m.live /\ m.n = j.n /\ ~Got(m)
  BY PatientNext
<1>3. jobs' = {m}
  BY <1>1, <1>2
<1> QED BY <1>2, <1>3

LEMMA OnlyOver ==
  ASSUME NEW j \in jobs, OneAtMost(jobs), Over(j)
  PROVE  jobs' = {}
<1>1. jobs = {j}
  BY OnlyJob
<1> QED BY <1>1 DEF Over

LEMMA OneAndNone == OneAtMost({}) /\ \A m : OneAtMost({m})
BY DEF OneAtMost

\* Nobody becomes patient on the pages of a version, a board or a check.
LEMMA RestPatient ==
  ASSUME RestAct, tidy', calm'
  PROVE  tidy /\ calm
<1> USE DEF Clicks, Looks, Serves, Hears
<1>1. CASE GenomeClick
  BY <1>1, PatientClick DEF GenomeClick, OpenVersion, ObjectRow, UnitRow, RatifyBo, RatifyWhole, IndexTab, ObjectsTab,
     VersionsKey, GenomeKey
<1>2. CASE ScopeClick
  BY <1>2, PatientClick DEF ScopeClick, SelectFunction, InScope, TypeOwner, BlurOwner, StartInterview, ScopeKey, Patch
<1>3. CASE SpecClick
  BY <1>3, PatientClick DEF SpecClick, FillForm, PickUnit, PickType, TypeOver, Check, ListChecks
<1>4. ASSUME NEW j \in jobs, ServeVersions(j) \/ ServeGenome(j) \/ ServeScope(j) \/ ServeSpec(j)
      PROVE  tidy /\ calm
  <2>1. tidy' = tidy
    BY <1>4 DEF ServeVersions, ServeGenome, ServeScope, ServeSpec
  <2>2. \E code, body, rows : Answers(j, code, body, rows)
    BY <1>4 DEF ServeVersions, ServeGenome, ServeScope, ServeSpec
  <2> QED BY <2>1, <2>2 DEF Answers
<1>5. ASSUME NEW j \in jobs, \/ HearVersions(j) \/ HearGenome(j) \/ HearBoard(j) \/ HearPatch(j) \/ HearSpecUnits(j)
                             \/ HearSpec(j)
      PROVE  tidy /\ calm
  BY <1>5 DEF HearVersions, HearGenome, HearBoard, HearPatch, HearSpecUnits, HearSpec
<1> QED BY <1>1, <1>2, <1>3, <1>4, <1>5 DEF RestAct

-----------------------------------------------------------------------------
(* The list of versions.                                                   *)

LEMMA VersionsOwe ==
  ASSUME page = "versions", RestAct, tidy', calm', Placed(jobs, RestOps), VersionsOwed(jobs, ui, db),
         page' = page
  PROVE  VersionsOwed(jobs', ui', db')
<1>0. /\ OneAtMost(jobs) /\ DOMAIN ui = DOMAIN VersionsUi /\ DOMAIN db = {"passed", "ratified", "approved"}
      /\ \A j \in jobs : j.op = "versions" /\ j.live /\ JobShape(j)
  BY DEF VersionsOwed, Placed
<1>1. CASE GenomeClick
  <2>1. VersionsKey
    BY <1>1 DEF GenomeClick, OpenVersion, ObjectRow, UnitRow, RatifyBo, RatifyWhole, IndexTab, ObjectsTab,
       GenomeKey, GenomeDrawn
  <2>2. PICK m : jobs' = {m} /\ Fresh(m, "versions", Nothing) /\ m.live
    BY <2>1, PatientStart DEF VersionsKey
  <2>3. ui' = [ui EXCEPT !.error = FALSE] /\ db' = db
    BY <2>1 DEF VersionsKey, Clicks
  <2> QED BY <1>0, <2>2, <2>3, OneAndNone DEF VersionsOwed, Fresh
<1>2. CASE ScopeClick \/ SpecClick
  BY <1>2 DEF ScopeClick, SelectFunction, InScope, TypeOwner, BlurOwner, StartInterview, ScopeKey, GridDrawn, SpecClick
<1>3. ASSUME NEW j \in jobs, ServeVersions(j)
      PROVE  VersionsOwed(jobs', ui', db')
  <2>1. Answers(j, "ok", GqsDetail, db) /\ ui' = ui
    BY <1>3 DEF ServeVersions, Serves
  <2>2. db' = db
    BY <1>0, <2>1, OnlyAnswer
  <2>3. PICK m : /\ jobs' = {m} /\ m.op = "versions" /\ m.live /\ Got(m) /\ Body(m) = GqsDetail
    BY <1>0, <2>1, OnlyAnswer
  <2>4. GqsDetail = DetailOf(db)
    BY DEF GqsDetail, DetailOf
  <2> QED BY <1>0, <2>1, <2>2, <2>3, <2>4, OneAndNone DEF VersionsOwed
<1>4. ASSUME NEW j \in jobs, HearVersions(j)
      PROVE  VersionsOwed(jobs', ui', db')
  <2>1. Got(j) /\ Body(j) = DetailOf(db)
    BY <1>4 DEF HearVersions, Heard, VersionsOwed
  <2>2. ui' = [ui EXCEPT !.rows = Body(j), !.needsKey = FALSE]
    BY <1>4, <2>1 DEF HearVersions, Got
  <2>3. ui'.rows = DetailOf(db) /\ DOMAIN ui' = DOMAIN ui
    BY <1>0, <2>1, <2>2 DEF VersionsUi
  <2>4. jobs' = {} /\ db' = db
    BY <1>0, <1>4, OnlyOver DEF HearVersions, Hears
  <2> QED BY <1>0, <2>3, <2>4, OneAndNone DEF VersionsOwed
<1>5. ASSUME NEW j \in jobs, \/ ServeGenome(j) \/ ServeScope(j) \/ ServeSpec(j)
                             \/ HearGenome(j) \/ HearBoard(j) \/ HearPatch(j) \/ HearSpecUnits(j) \/ HearSpec(j)
      PROVE  FALSE
  BY <1>0, <1>5 DEF ServeGenome, ServeScope, ServeSpec, HearGenome, HearBoard, HearPatch, HearSpecUnits, HearSpec,
     Sent, Heard
<1> QED BY <1>1, <1>2, <1>3, <1>4, <1>5 DEF RestAct

LEMMA GenomeOpens ==
  ASSUME OpenVersion, DOMAIN db = {"passed", "ratified", "approved"}
  PROVE  GenomeOwed(jobs', ui', db')
<1>1. ui' = GenomeUi /\ db' = db
  BY DEF OpenVersion
<1>2. PICK m : m = Job("gqs", Nothing, 0)
  OBVIOUS
<1>3. m.op = "gqs" /\ m.live /\ m.stage = "sent"
  BY <1>2, JobMade DEF Job
<1>4. jobs' = {m}
  BY <1>2 DEF OpenVersion
<1>5. GenomeJob(m, ui', db')
  BY <1>3 DEF GenomeJob, GenomeOps
<1>6. GenomeUi.selected = Nothing /\ GenomeUi.unit = Nothing
  BY DEF GenomeUi
<1> QED BY <1>1, <1>3, <1>4, <1>5, <1>6, OneAndNone DEF GenomeOwed

-----------------------------------------------------------------------------
(* One version.                                                            *)

\* A click that leaves what is shown, and asks for more.
SameGenome(v, u) ==
  /\ DOMAIN v = DOMAIN u
  /\ v.selected = u.selected /\ v.units = u.units /\ v.unit = u.unit /\ v.gqs = u.gqs /\ v.objects = u.objects

LEMMA GenomeAsks ==
  ASSUME GenomeOwed(jobs, ui, db), tidy', db' = db, SameGenome(ui', ui),
         NEW op \in GenomeOps \ {"units"}, NEW arg, Starts({<<op, arg>>}),
         op = "unit" => arg \in UnitsOf[ui.selected] \/ jobs # {}
  PROVE  GenomeOwed(jobs', ui', db')
<1>1. jobs = {}
  BY PatientClick
<1>2. PICK m : jobs' = {m} /\ Fresh(m, op, arg) /\ m.live /\ ~Got(m)
  BY PatientStart
<1>3. GenomeJob(m, ui', db')
  BY <1>1, <1>2 DEF GenomeJob, Fresh, SameGenome
<1>4. /\ ui.gqs = DetailOf(db) /\ ui.objects = ObjectsOf(db)
      /\ ui.selected # Nothing => ui.units = UnitsOf[ui.selected]
      /\ ui.unit # Nothing => ui.unit \in UnitsOf[ui.selected]
      /\ DOMAIN ui = DOMAIN GenomeUi /\ DOMAIN db = {"passed", "ratified", "approved"}
  BY <1>1 DEF GenomeOwed
<1> QED BY <1>2, <1>3, <1>4, OneAndNone DEF GenomeOwed, SameGenome

LEMMA GenomeClicks ==
  ASSUME page = "genome", GenomeClick, tidy', GenomeOwed(jobs, ui, db)
  PROVE  GenomeOwed(jobs', ui', db')
<1>0. DOMAIN ui = DOMAIN GenomeUi
  BY DEF GenomeOwed
<1>1. CASE ObjectRow
  <2>1. PICK o : Starts({<<"units", o>>}) /\ ui' = OpenBo(ui, o)
    BY <1>1 DEF ObjectRow
  <2>2. jobs = {} /\ db' = db
    BY <1>1, <2>1, PatientClick DEF ObjectRow, Clicks
  <2>3. PICK m : jobs' = {m} /\ Fresh(m, "units", o) /\ m.live /\ ~Got(m)
    BY <2>1, PatientStart
  <2>4. /\ DOMAIN ui' = DOMAIN ui
        /\ ui'.selected = o /\ ui'.unit = Nothing
        /\ ui'.gqs = ui.gqs /\ ui'.objects = ui.objects
    BY <1>0, <2>1 DEF OpenBo, GenomeUi
  <2>5. GenomeJob(m, ui', db')
    BY <2>3, <2>4 DEF GenomeJob, GenomeOps, Fresh
  <2>6. GenomeOwed({}, ui, db)
    BY <2>2
  <2> QED BY <2>2, <2>3, <2>4, <2>5, <2>6, OneAndNone DEF GenomeOwed, Fresh
<1>2. CASE UnitRow
  <2>1. PICK u \in ui.units : Starts({<<"unit", u>>})
    BY <1>2 DEF UnitRow
  <2>2. ui' = ui /\ db' = db /\ ui.selected # Nothing
    BY <1>2 DEF UnitRow, Clicks
  <2>3. u \in UnitsOf[ui.selected] \/ jobs # {}
    BY <2>2 DEF GenomeOwed
  <2>4. "unit" \in GenomeOps \ {"units"}
    BY DEF GenomeOps
  <2>5. SameGenome(ui', ui)
    BY <2>2 DEF SameGenome
  <2>6. PICK op \in GenomeOps \ {"units"} : op = "unit"
    BY <2>4
  <2>7. Starts({<<op, u>>})
    BY <2>1, <2>6
  <2> QED BY <2>2, <2>3, <2>5, <2>7, GenomeAsks
<1>3. CASE RatifyBo \/ RatifyWhole
  <2>1. PICK op \in {"ratifyBo", "ratifyWhole"} : \E arg : Starts({<<op, arg>>})
    BY <1>3 DEF RatifyBo, RatifyWhole
  <2>2. PICK arg : Starts({<<op, arg>>})
    BY <2>1
  <2>3. db' = db /\ ui' = [ui EXCEPT !.busy = TRUE]
    BY <1>3 DEF RatifyBo, RatifyWhole, Clicks
  <2>4. SameGenome(ui', ui)
    BY <1>0, <2>3 DEF GenomeUi, SameGenome
  <2>5. op \in GenomeOps \ {"units"} /\ op # "unit"
    BY DEF GenomeOps
  <2> QED BY <2>2, <2>3, <2>4, <2>5, GenomeAsks
<1>4. CASE IndexTab
  <2>1. db' = db /\ ui' = [ui EXCEPT !.tab = "index"]
    BY <1>4 DEF IndexTab, Clicks
  <2>2. SameGenome(ui', ui)
    BY <1>0, <2>1 DEF GenomeUi, SameGenome
  <2>3. CASE Starts({<<"index", Nothing>>})
    <3>1. PICK op \in GenomeOps \ {"units"} : op = "index"
      BY DEF GenomeOps
    <3>2. Starts({<<op, Nothing>>}) /\ op # "unit"
      BY <2>3, <3>1
    <3> QED BY <2>1, <2>2, <3>2, GenomeAsks
  <2>4. CASE Starts({})
    <3>1. jobs' = jobs
      BY <2>4 DEF Starts
    <3>2. \A j \in jobs : GenomeJob(j, ui, db) => GenomeJob(j, ui', db')
      BY <2>1, <2>2 DEF GenomeJob, SameGenome
    <3> QED BY <2>1, <2>2, <3>1, <3>2 DEF GenomeOwed, SameGenome
  <2> QED BY <1>4, <2>3, <2>4 DEF IndexTab
<1>5. CASE ObjectsTab
  <2>1. jobs' = jobs /\ db' = db /\ ui' = [ui EXCEPT !.tab = "objects"]
    BY <1>5 DEF ObjectsTab, Looks
  <2>2. SameGenome(ui', ui)
    BY <1>0, <2>1 DEF GenomeUi, SameGenome
  <2>3. \A j \in jobs : GenomeJob(j, ui, db) => GenomeJob(j, ui', db')
    BY <2>1, <2>2 DEF GenomeJob, SameGenome
  <2> QED BY <2>1, <2>2, <2>3 DEF GenomeOwed, SameGenome
<1>6. CASE GenomeKey
  <2>1. db' = db /\ ui' = [ui EXCEPT !.needsKey = FALSE] /\ Starts({<<"gqs", Nothing>>})
    BY <1>6 DEF GenomeKey, LoadCore, Clicks
  <2>2. SameGenome(ui', ui)
    BY <1>0, <2>1 DEF GenomeUi, SameGenome
  <2>3. PICK op \in GenomeOps \ {"units"} : op = "gqs"
    BY DEF GenomeOps
  <2>4. Starts({<<op, Nothing>>}) /\ op # "unit"
    BY <2>1, <2>3
  <2> QED BY <2>1, <2>2, <2>4, GenomeAsks
<1>7. ~OpenVersion /\ ~VersionsKey
  BY DEF OpenVersion, VersionsKey
<1> QED BY <1>1, <1>2, <1>3, <1>4, <1>5, <1>6, <1>7 DEF GenomeClick

LEMMA GenomeServes ==
  ASSUME GenomeOwed(jobs, ui, db), NEW j \in jobs, JobShape(j), ServeGenome(j), calm'
  PROVE  GenomeOwed(jobs', ui', db')
<1>0. /\ OneAtMost(jobs) /\ GenomeJob(j, ui, db) /\ DOMAIN db = {"passed", "ratified", "approved"}
      /\ ui' = ui /\ ~Got(j)
  BY DEF GenomeOwed, ServeGenome, Serves, Sent, Got
<1>1. PICK body, rows : /\ Answers(j, "ok", body, rows) /\ DOMAIN rows = DOMAIN db
                        /\ j.op \in {"ratifyBo", "ratifyWhole"} \/ (rows = db /\ GenomeBody(j.op, Arg(j), body, db))
  <2>1. CASE Sent(j, "ratifyBo")
    <3>1. Answers(j, "ok", <<>>, RatifiedOf(Arg(j)))
      BY <2>1 DEF ServeGenome, Sent
    <3>2. DOMAIN RatifiedOf(Arg(j)) = DOMAIN db
      BY DEF RatifiedOf
    <3> QED BY <2>1, <3>1, <3>2 DEF Sent
  <2>2. CASE Sent(j, "ratifyWhole")
    <3>1. Answers(j, "ok", <<>>, [db EXCEPT !.ratified = TRUE])
      BY <2>2 DEF ServeGenome, Sent
    <3> QED BY <2>2, <3>1 DEF Sent
  <2>3. CASE Sent(j, "gqs") \/ Sent(j, "objects") \/ Sent(j, "units") \/ Sent(j, "unit") \/ Sent(j, "index")
    <3>1. GqsDetail = DetailOf(db)
      BY DEF GqsDetail, DetailOf
    <3> QED BY <2>3, <3>1 DEF ServeGenome, Sent, GenomeBody
  <2> QED BY <2>1, <2>2, <2>3 DEF ServeGenome
<1>2. /\ db' = rows /\ jobs = {j}
      /\ \E m : /\ jobs' = {m}
                /\ m.op = j.op /\ Arg(m) = Arg(j) /\ m.n = j.n /\ m.live = j.live
                /\ m.stage = "answered" /\ Got(m) /\ Body(m) = body
  BY <1>0, <1>1, OnlyAnswer
<1>3. PICK m : /\ jobs' = {m}
               /\ m.op = j.op /\ Arg(m) = Arg(j) /\ m.live = j.live
               /\ m.stage = "answered" /\ Got(m) /\ Body(m) = body
  BY <1>2
<1>4. GenomeJob(m, ui', db')
  <2>1. GenomeBody(j.op, Arg(j), body, db')
    BY <1>1, <1>2 DEF GenomeBody
  <2> QED BY <1>0, <1>3, <2>1 DEF GenomeJob
<1>5. ~Ratifies(j)
  BY <1>0 DEF Ratifies
<1>6. CASE j.op \in {"ratifyBo", "ratifyWhole"}
  <2>1. Ratifies(m)
    BY <1>3, <1>6 DEF Ratifies
  <2> QED BY <1>0, <1>1, <1>2, <1>3, <1>4, <1>6, <2>1, OneAndNone DEF GenomeOwed
<1>7. CASE j.op \notin {"ratifyBo", "ratifyWhole"}
  <2>1. db' = db
    BY <1>1, <1>2, <1>7
  <2> QED BY <1>0, <1>2, <1>3, <1>4, <1>5, <2>1, OneAndNone DEF GenomeOwed
<1> QED BY <1>6, <1>7

LEMMA GenomeHears ==
  ASSUME GenomeOwed(jobs, ui, db), NEW j \in jobs, HearGenome(j)
  PROVE  GenomeOwed(jobs', ui', db')
<1>0. /\ OneAtMost(jobs) /\ GenomeJob(j, ui, db) /\ DOMAIN ui = DOMAIN GenomeUi
      /\ DOMAIN db = {"passed", "ratified", "approved"}
      /\ db' = db /\ jobs = {j}
  BY OnlyJob DEF GenomeOwed, HearGenome, Hears
<1>1. Got(j) /\ GenomeBody(j.op, Arg(j), Body(j), db)
  BY <1>0 DEF HearGenome, Heard, GenomeJob
<1>2. Handled(ui, j) = ui /\ \A state, field : Kept(state, j, field) = [state EXCEPT ![field] = Body(j)]
  BY <1>1 DEF Got, Handled, Kept
<1>3. GenomeUi.selected = Nothing /\ DOMAIN GenomeUi = {"gqs", "objects", "selected", "units", "unit", "busy", "index", "tab",
                                                      "error", "needsKey"}
  BY DEF GenomeUi
<1>4. CASE j.op = "gqs"
  <2>1. ui' = [ui EXCEPT !["gqs"] = Body(j)] /\ GoesOn(j, "objects", Arg(j))
    BY <1>2, <1>4 DEF HearGenome, Heard
  <2>2. PICK m : jobs' = {m} /\ Fresh(m, "objects", Arg(j)) /\ m.live /\ ~Got(m)
    BY <1>0, <2>1, OnlyNext
  <2>3. GenomeJob(m, ui', db')
    BY <2>2 DEF GenomeJob, GenomeOps, Fresh
  <2>4. /\ DOMAIN ui' = DOMAIN ui /\ ui'.gqs = DetailOf(db)
        /\ ui'.selected = ui.selected /\ ui'.units = ui.units /\ ui'.unit = ui.unit
    BY <1>0, <1>1, <1>3, <1>4, <2>1 DEF GenomeBody
  <2> QED BY <1>0, <1>4, <2>2, <2>3, <2>4, OneAndNone DEF GenomeOwed, Fresh
<1>5. CASE j.op = "objects"
  <2>1. PICK state : state = [ui EXCEPT !["objects"] = Body(j)]
    OBVIOUS
  <2>2. /\ DOMAIN state = DOMAIN ui /\ state.objects = ObjectsOf(db) /\ state.gqs = ui.gqs
        /\ state.selected = ui.selected /\ state.units = ui.units /\ state.unit = ui.unit
    BY <1>0, <1>1, <1>3, <1>5, <2>1 DEF GenomeBody
  <2>3. ui.gqs = DetailOf(db)
    BY <1>0, <1>5 DEF GenomeOwed, Ratifies
  <2>4. CASE Arg(j) = Nothing
    <3>1. ui' = state /\ Over(j)
      BY <1>2, <1>5, <2>1, <2>4 DEF HearGenome, Heard
    <3>2. jobs' = {}
      BY <1>0, <3>1, OnlyOver
    <3> QED BY <1>0, <1>5, <2>2, <2>3, <3>1, <3>2, OneAndNone DEF GenomeOwed
  <2>5. CASE Arg(j) # Nothing
    <3>0. Kept(Handled(ui, j), j, "objects") = state
      BY <1>2, <2>1
    <3>1. ui' = OpenBo(state, Arg(j)) /\ GoesOn(j, "units", Arg(j))
      BY <1>5, <2>5, <3>0 DEF HearGenome, Heard
    <3>2. PICK m : jobs' = {m} /\ Fresh(m, "units", Arg(j)) /\ m.live /\ ~Got(m)
      BY <1>0, <3>1, OnlyNext
    <3>3. /\ DOMAIN ui' = DOMAIN ui /\ ui'.objects = state.objects /\ ui'.gqs = ui.gqs
          /\ ui'.selected = Arg(j) /\ ui'.unit = Nothing
      BY <1>0, <1>3, <2>2, <3>1 DEF OpenBo
    <3>4. GenomeJob(m, ui', db')
      BY <3>2, <3>3 DEF GenomeJob, GenomeOps, Fresh
    <3> QED BY <1>0, <2>2, <2>3, <3>2, <3>3, <3>4, OneAndNone DEF GenomeOwed, Fresh
  <2> QED BY <2>4, <2>5
<1>6. CASE j.op \in {"units", "unit", "index"}
  <2>1. PICK field \in {"units", "unit", "index"} : field = j.op /\ ui' = [ui EXCEPT ![field] = Body(j)] /\ Over(j)
    BY <1>2, <1>6 DEF HearGenome, Heard
  <2>2. jobs' = {}
    BY <1>0, <2>1, OnlyOver
  <2>3. ui.gqs = DetailOf(db) /\ ui.objects = ObjectsOf(db)
    BY <1>0, <1>6 DEF GenomeOwed, Ratifies
  <2>4. /\ DOMAIN ui' = DOMAIN ui /\ ui'.selected = ui.selected /\ ui'.gqs = ui.gqs /\ ui'.objects = ui.objects
        /\ ui'.units = IF j.op = "units" THEN Body(j) ELSE ui.units
        /\ ui'.unit = IF j.op = "unit" THEN Body(j) ELSE ui.unit
    BY <1>0, <1>3, <2>1
  <2>5. /\ j.op = "units" => Body(j) = UnitsOf[ui.selected]
        /\ j.op = "unit" => Body(j) \in UnitsOf[ui.selected]
    BY <1>0, <1>1 DEF GenomeJob, GenomeBody
  <2> QED BY <1>0, <2>2, <2>3, <2>4, <2>5, OneAndNone DEF GenomeOwed
<1>7. CASE j.op \in {"ratifyWhole", "ratifyBo"}
  <2>1. ui' = [ui EXCEPT !.busy = FALSE] /\ \E arg : GoesOn(j, "gqs", arg)
    BY <1>1, <1>2, <1>7 DEF HearGenome, Heard, Got, AfterRatifyBo
  <2>2. PICK m : jobs' = {m} /\ (\E arg : Fresh(m, "gqs", arg)) /\ m.live /\ ~Got(m)
    BY <1>0, <2>1, OnlyNext
  <2>3. /\ DOMAIN ui' = DOMAIN ui
        /\ ui'.selected = ui.selected /\ ui'.units = ui.units /\ ui'.unit = ui.unit
    BY <1>0, <1>3, <2>1
  <2>4. GenomeJob(m, ui', db')
    BY <2>2 DEF GenomeJob, GenomeOps, Fresh
  <2> QED BY <1>0, <1>7, <2>2, <2>3, <2>4, OneAndNone DEF GenomeOwed, Fresh
<1> QED BY <1>0, <1>4, <1>5, <1>6, <1>7 DEF GenomeJob, GenomeOps

LEMMA GenomeOwe ==
  ASSUME page = "genome", RestAct, tidy', calm', Placed(jobs, RestOps), GenomeOwed(jobs, ui, db)
  PROVE  GenomeOwed(jobs', ui', db')
<1>0. \A j \in jobs : j.op \in GenomeOps /\ JobShape(j)
  BY DEF GenomeOwed, GenomeJob, Placed
<1>1. ~ScopeClick /\ ~SpecClick
  BY DEF ScopeClick, SelectFunction, InScope, TypeOwner, BlurOwner, StartInterview, ScopeKey, GridDrawn, SpecClick
<1>2. ASSUME NEW j \in jobs, \/ ServeVersions(j) \/ ServeScope(j) \/ ServeSpec(j) \/ HearVersions(j)
                             \/ HearBoard(j) \/ HearPatch(j) \/ HearSpecUnits(j) \/ HearSpec(j)
      PROVE  FALSE
  BY <1>0, <1>2 DEF ServeVersions, ServeScope, ServeSpec, HearVersions, HearBoard, HearPatch, HearSpecUnits, HearSpec,
     Sent, Heard, GenomeOps
<1> QED BY <1>0, <1>1, <1>2, GenomeClicks, GenomeServes, GenomeHears DEF RestAct

-----------------------------------------------------------------------------
(* Function Scope.                                                         *)

LEMMA PatchedShape ==
  ASSUME NEW board, BoardShape(board), NEW change
  PROVE  BoardShape(Patched(board, change))
BY DEF BoardShape, Patched

\* A change is that of one cell.
LEMMA PatchedCells ==
  ASSUME NEW board, BoardShape(board), NEW change, change.sub \in Subs, change.field \in {"in_scope", "owner_name"},
         NEW s \in Subs
  PROVE  Patched(board, change)[s].owner_name = IF s = change.sub /\ change.field = "owner_name" THEN NewValue(change)
                                                ELSE board[s].owner_name
<1>1. Patched(board, change) = [board EXCEPT ![change.sub] = [board[change.sub] EXCEPT ![change.field] = NewValue(change)]]
  BY DEF Patched
<1>2. PICK row : row = [board[change.sub] EXCEPT ![change.field] = NewValue(change)]
  OBVIOUS
<1>3. Patched(board, change)[s] = IF s = change.sub THEN row ELSE board[s]
  BY <1>1, <1>2 DEF BoardShape
<1>4. row.owner_name = IF change.field = "owner_name" THEN NewValue(change) ELSE board[change.sub].owner_name
  BY <1>2 DEF BoardShape
<1> QED BY <1>3, <1>4

LEMMA ScopeAtRest ==
  ASSUME ScopeOwed({}, ui, db), ui.data # Nothing
  PROVE  /\ ui.fn = "hr" /\ ui.data = db
         /\ \A s \in Subs : ui.focus # s => ui.draft[s] = ui.data[s].owner_name
BY DEF ScopeOwed

LEMMA ScopePatches ==
  ASSUME ScopeOwed(jobs, ui, db), GridDrawn, tidy', db' = db, NEW s \in Subs, NEW field \in {"in_scope", "owner_name"}, NEW value,
         Patch(s, field, value), ui.focus = Nothing \/ (ui.focus = s /\ field = "owner_name"),
         field = "owner_name" => value = ui.draft[s]
  PROVE  ScopeOwed(jobs', ui', db')
<1>0. DOMAIN ui = DOMAIN GridUi /\ DOMAIN ui.draft = Subs /\ BoardShape(db) /\ ui.data # Nothing
  BY DEF ScopeOwed, GridDrawn
<1>1. PICK change : change = [sub |-> s, field |-> field, value |-> Under(field, value)]
  OBVIOUS
<1>2. Starts({<<"patch", change>>}) /\ ui' = [ui EXCEPT !.busy = @ \cup {s}, !.focus = Nothing]
  BY <1>1 DEF Patch
<1>3. jobs = {}
  BY <1>2, PatientClick
<1>4. PICK m : jobs' = {m} /\ Fresh(m, "patch", change) /\ m.live /\ ~Got(m)
  BY <1>2, PatientStart
<1>5. ScopeOwed({}, ui, db)
  BY <1>3
<1>6. /\ ui.fn = "hr" /\ ui.data = db
      /\ \A x \in Subs : ui.focus # x => ui.draft[x] = ui.data[x].owner_name
  BY <1>0, <1>5, ScopeAtRest
<1>7. /\ DOMAIN ui' = DOMAIN ui /\ ui'.draft = ui.draft /\ ui'.focus = Nothing /\ ui'.fn = ui.fn /\ ui'.data = ui.data
      /\ ui'.busy = ui.busy \cup {s}
  BY <1>0, <1>2 DEF GridUi
<1>8. change.sub = s /\ change.field = field /\ NewValue(change) = value
  BY <1>1 DEF NewValue, Under
<1>9. ScopeJob(m, ui', db')
  <2>1. ChangeOf(m, ui', db')
    BY <1>0, <1>4, <1>6, <1>7, <1>8 DEF ChangeOf, Fresh
  <2> QED BY <1>4, <1>6, <1>7, <2>1 DEF ScopeJob, Fresh
<1>10. \A x \in Subs : ui'.draft[x] = ui'.data[x].owner_name \/ Renames(m, x)
  <2>1. CASE ui.focus = Nothing
    BY <1>6, <1>7, <2>1, ScopeAssumption
  <2>2. CASE ui.focus = s /\ field = "owner_name"
    BY <1>4, <1>6, <1>7, <1>8, <2>2 DEF Renames, Fresh
  <2> QED BY <2>1, <2>2
<1> QED BY <1>0, <1>4, <1>6, <1>7, <1>9, <1>10, OneAndNone DEF ScopeOwed

LEMMA ScopeClicks ==
  ASSUME page = "scope", page' = page, ScopeClick, tidy', Placed(jobs, RestOps), ScopeOwed(jobs, ui, db)
  PROVE  ScopeOwed(jobs', ui', db')
<1>0. DOMAIN ui = DOMAIN GridUi /\ DOMAIN ui.draft = Subs /\ BoardShape(db) /\ OneAtMost(jobs)
  BY DEF ScopeOwed
<1>1. /\ DOMAIN GridUi = {"fn", "data", "draft", "busy", "focus", "error", "needsKey"}
      /\ GridUi.fn = "hr" /\ GridUi.data = Nothing /\ GridUi.focus = Nothing /\ DOMAIN GridUi.draft = Subs
  BY DEF GridUi
<1>2. CASE SelectFunction
  <2>0. db' = db
    BY <1>2 DEF SelectFunction, Clicks
  <2>1. CASE ui.fn = "hr"
    <3>1. ui' = [GridUi EXCEPT !.fn = "other"] /\ jobs' = Abandoned
      BY <1>2, <2>1 DEF SelectFunction
    <3>2. /\ DOMAIN ui' = DOMAIN GridUi /\ ui'.fn = "other" /\ ui'.data = Nothing /\ ui'.focus = Nothing
          /\ DOMAIN ui'.draft = Subs
      BY <1>1, <3>1
    <3>3. OneAtMost(jobs')
      <4>1. CASE jobs = {}
        BY <3>1, <4>1 DEF OneAtMost, Abandoned
      <4>2. ASSUME NEW j, jobs = {j}
            PROVE  OneAtMost(jobs')
        <5>1. jobs' = {[j EXCEPT !.live = FALSE]}
          BY <3>1, <4>2 DEF Abandoned
        <5> QED BY <5>1, OneAndNone
      <4> QED BY <1>0, <4>1, <4>2 DEF OneAtMost
    <3>4. ASSUME NEW m \in jobs'
          PROVE  ScopeJob(m, ui', db')
      <4>1. PICK j \in jobs : m = [j EXCEPT !.live = FALSE]
        BY <3>1 DEF Abandoned
      <4>2. ScopeJob(j, ui, db) /\ JobShape(j)
        BY DEF ScopeOwed, Placed
      <4>3. m.op = j.op /\ m.stage = j.stage /\ m.code = j.code /\ Body(m) = Body(j) /\ ~m.live
        BY <4>1, <4>2 DEF JobShape, JobFields, Body
      <4> QED BY <2>0, <3>2, <4>2, <4>3 DEF ScopeJob, Got
    <3> QED BY <1>0, <2>0, <3>2, <3>3, <3>4 DEF ScopeOwed
  <2>2. CASE ui.fn # "hr"
    <3>1. ui' = GridUi /\ Starts({<<"board", Nothing>>})
      BY <1>2, <2>2 DEF SelectFunction
    <3>2. PICK m : jobs' = {m} /\ Fresh(m, "board", Nothing) /\ m.live /\ ~Got(m)
      BY <3>1, PatientStart
    <3>3. ScopeJob(m, ui', db')
      BY <1>1, <3>1, <3>2 DEF ScopeJob, Fresh
    <3> QED BY <1>0, <1>1, <2>0, <3>1, <3>2, <3>3, OneAndNone DEF ScopeOwed, Fresh
  <2> QED BY <2>1, <2>2
<1>3. CASE InScope
  <2>1. PICK s \in Subs \ ui.busy : Patch(s, "in_scope", ~ui.data[s].in_scope)
    BY <1>3 DEF InScope
  <2>2. GridDrawn /\ ui.focus = Nothing /\ db' = db
    BY <1>3 DEF InScope, Clicks
  <2>3. PICK field \in {"in_scope", "owner_name"} : field = "in_scope"
    OBVIOUS
  <2>4. PICK value : value = ~ui.data[s].in_scope
    OBVIOUS
  <2>5. Patch(s, field, value)
    BY <2>1, <2>3, <2>4
  <2> QED BY <2>2, <2>3, <2>5, ScopePatches
<1>4. CASE TypeOwner
  <2>1. PICK s \in Subs \ ui.busy, o \in Owners :
          ui.focus \in {Nothing, s} /\ ui' = [ui EXCEPT !.draft[s] = o, !.focus = s]
    BY <1>4 DEF TypeOwner
  <2>2. GridDrawn /\ jobs' = jobs /\ db' = db
    BY <1>4 DEF TypeOwner, Looks
  <2>3. PICK draft : draft = [ui.draft EXCEPT ![s] = o]
    OBVIOUS
  <2>4. /\ DOMAIN ui' = DOMAIN ui /\ ui'.draft = draft /\ ui'.focus = s /\ ui'.fn = ui.fn
        /\ ui'.data = ui.data /\ ui'.busy = ui.busy
    BY <1>0, <1>1, <2>1, <2>3
  <2>5. DOMAIN draft = Subs /\ \A x \in Subs \ {s} : draft[x] = ui.draft[x]
    BY <1>0, <2>3
  <2>6. ASSUME NEW j \in jobs
        PROVE  ScopeJob(j, ui', db')
    <3>1. ScopeJob(j, ui, db)
      BY DEF ScopeOwed
    <3>2. ChangeOf(j, ui, db) => ChangeOf(j, ui', db')
      BY <2>2, <2>4, <2>5 DEF ChangeOf
    <3> QED BY <2>2, <2>4, <3>1, <3>2 DEF ScopeJob
  <2>7. \A x \in Subs \ {s} : ui.focus # x
    BY <2>1, ScopeAssumption
  <2> QED BY <1>0, <2>2, <2>4, <2>5, <2>6, <2>7 DEF ScopeOwed
<1>5. CASE BlurOwner
  <2>1. PICK s \in Subs : s = ui.focus
    BY <1>5 DEF BlurOwner, ScopeOwed
  <2>2. GridDrawn /\ db' = db
    BY <1>5 DEF BlurOwner, Clicks
  <2>3. CASE ui.draft[s] # ui.data[s].owner_name
    <3>1. Patch(s, "owner_name", ui.draft[s])
      BY <1>5, <2>1, <2>3 DEF BlurOwner
    <3>2. PICK field \in {"in_scope", "owner_name"} : field = "owner_name"
      OBVIOUS
    <3>3. PICK value : value = ui.draft[s]
      OBVIOUS
    <3>4. Patch(s, field, value)
      BY <3>1, <3>2, <3>3
    <3> QED BY <2>1, <2>2, <3>2, <3>3, <3>4, ScopePatches
  <2>4. CASE ui.draft[s] = ui.data[s].owner_name
    <3>1. ui' = [ui EXCEPT !.focus = Nothing] /\ jobs' = jobs
      BY <1>5, <2>1, <2>4 DEF BlurOwner
    <3>2. /\ DOMAIN ui' = DOMAIN ui /\ ui'.draft = ui.draft /\ ui'.focus = Nothing /\ ui'.fn = ui.fn
          /\ ui'.data = ui.data /\ ui'.busy = ui.busy
      BY <1>0, <1>1, <3>1
    <3>3. \A j \in jobs : ScopeJob(j, ui, db) => ScopeJob(j, ui', db')
      BY <2>2, <3>2 DEF ScopeJob, ChangeOf
    <3>4. \A x \in Subs : ui.focus # x \/ ui.draft[x] = ui.data[x].owner_name
      BY <2>1, <2>4
    <3> QED BY <1>0, <2>2, <3>1, <3>2, <3>3, <3>4 DEF ScopeOwed
  <2> QED BY <2>3, <2>4
<1>6. CASE ScopeKey
  <2>1. ui.fn = "hr" /\ ui' = [ui EXCEPT !.error = FALSE] /\ Starts({<<"board", Nothing>>}) /\ db' = db
    BY <1>6 DEF ScopeKey, Clicks
  <2>2. jobs = {}
    BY <2>1, PatientClick
  <2>3. PICK m : jobs' = {m} /\ Fresh(m, "board", Nothing) /\ m.live /\ ~Got(m)
    BY <2>1, PatientStart
  <2>4. /\ DOMAIN ui' = DOMAIN ui /\ ui'.draft = ui.draft /\ ui'.focus = ui.focus /\ ui'.fn = ui.fn
        /\ ui'.data = ui.data
    BY <1>0, <1>1, <2>1
  <2>5. ScopeJob(m, ui', db')
    BY <2>1, <2>3, <2>4 DEF ScopeJob, Fresh
  <2>6. ScopeOwed({}, ui, db)
    BY <2>2
  <2> QED BY <2>1, <2>3, <2>4, <2>5, <2>6, OneAndNone DEF ScopeOwed, Fresh
<1>7. ~StartInterview
  BY DEF StartInterview
<1> QED BY <1>2, <1>3, <1>4, <1>5, <1>6, <1>7 DEF ScopeClick

LEMMA ScopeServes ==
  ASSUME ScopeOwed(jobs, ui, db), NEW j \in jobs, JobShape(j), ServeScope(j), calm'
  PROVE  ScopeOwed(jobs', ui', db')
<1>0. /\ OneAtMost(jobs) /\ ScopeJob(j, ui, db) /\ BoardShape(db)
      /\ ui' = ui /\ ~Got(j)
  BY DEF ScopeOwed, ServeScope, Serves, Sent, Got
<1>1. PICK rows : /\ Answers(j, "ok", rows, rows) /\ BoardShape(rows)
                  /\ rows = IF j.op = "patch" THEN Patched(db, Arg(j)) ELSE db
  <2>1. CASE Sent(j, "board")
    BY <1>0, <2>1 DEF ServeScope, Sent
  <2>2. CASE Sent(j, "patch")
    <3>1. PICK rows : rows = Patched(db, Arg(j))
      OBVIOUS
    <3>2. Answers(j, "ok", rows, rows)
      BY <2>2, <3>1 DEF ServeScope, Sent
    <3>3. BoardShape(rows)
      BY <1>0, <3>1, PatchedShape
    <3> QED BY <2>2, <3>1, <3>2, <3>3 DEF Sent
  <2> QED BY <2>1, <2>2 DEF ServeScope
<1>2. db' = rows /\ jobs = {j}
  BY <1>0, <1>1, OnlyAnswer
<1>3. PICK m : /\ jobs' = {m}
               /\ m.op = j.op /\ Arg(m) = Arg(j) /\ m.live = j.live
               /\ m.stage = "answered" /\ Got(m) /\ Body(m) = rows
  BY <1>0, <1>1, OnlyAnswer
<1>4. ScopeJob(m, ui', db')
  <2>1. m.op = "patch" /\ m.live => ChangeOf(m, ui', db')
    BY <1>0, <1>1, <1>2, <1>3 DEF ScopeJob, ChangeOf
  <2> QED BY <1>0, <1>2, <1>3, <2>1 DEF ScopeJob
<1>5. \A s : Renames(j, s) => Renames(m, s)
  BY <1>3 DEF Renames
<1>6. ui.fn = "hr" => \/ ui'.data = db'
                      \/ ui'.data = Nothing /\ m.op = "board"
                      \/ m.op = "patch" /\ Got(m)
  <2>1. CASE j.op = "patch"
    BY <1>3, <2>1
  <2>2. CASE j.op # "patch"
    BY <1>0, <1>1, <1>2, <1>3, <2>2 DEF ScopeOwed
  <2> QED BY <2>1, <2>2
<1> QED BY <1>0, <1>1, <1>2, <1>3, <1>4, <1>5, <1>6, OneAndNone DEF ScopeOwed

LEMMA ScopeHears ==
  ASSUME ScopeOwed(jobs, ui, db), NEW j \in jobs, HearBoard(j) \/ HearPatch(j) \/ HearAbandoned(j)
  PROVE  ScopeOwed(jobs', ui', db')
<1>0. /\ OneAtMost(jobs) /\ ScopeJob(j, ui, db) /\ BoardShape(db) /\ jobs = {j}
      /\ DOMAIN ui = DOMAIN GridUi /\ DOMAIN ui.draft = Subs /\ ui.focus \in Subs \cup {Nothing}
      /\ db' = db /\ Over(j)
  BY OnlyJob DEF ScopeOwed, HearBoard, HearPatch, HearAbandoned, Hears, Over
<1>1. jobs' = {}
  BY <1>0, OnlyOver
<1>2. DOMAIN GridUi = {"fn", "data", "draft", "busy", "focus", "error", "needsKey"}
  BY DEF GridUi
<1>3. CASE HearBoard(j)
  <2>1. Got(j) /\ Body(j) = db /\ ui.fn = "hr"
    BY <1>0, <1>3 DEF HearBoard, Heard, ScopeJob
  <2>2. PICK draft : draft = [s \in Subs |-> db[s].owner_name]
    OBVIOUS
  <2>3. PICK state : state = [ui EXCEPT !.data = Body(j), !.needsKey = FALSE]
    OBVIOUS
  <2>4. ui' = CardsMounted(state)
    BY <1>3, <2>1, <2>3 DEF HearBoard, Got
  <2>5. DOMAIN state = DOMAIN ui /\ state.data = db /\ state.fn = ui.fn /\ state.focus = ui.focus
    BY <1>0, <1>2, <2>1, <2>3
  <2>6. ui' = [state EXCEPT !.draft = draft]
    BY <2>2, <2>4, <2>5 DEF CardsMounted
  <2>7. DOMAIN ui' = DOMAIN ui /\ ui'.data = db /\ ui'.fn = ui.fn /\ ui'.focus = ui.focus /\ ui'.draft = draft
    BY <1>0, <1>2, <2>5, <2>6
  <2>8. DOMAIN draft = Subs /\ \A s \in Subs : draft[s] = db[s].owner_name
    BY <2>2
  <2> QED BY <1>0, <1>1, <2>1, <2>7, <2>8, OneAndNone DEF ScopeOwed
<1>4. CASE HearPatch(j)
  <2>1. Got(j) /\ Body(j) = db /\ ui.fn = "hr" /\ j.op = "patch" /\ ChangeOf(j, ui, db)
    BY <1>0, <1>4 DEF HearPatch, Heard, ScopeJob
  <2>2. BoardShape(ui.data) /\ db = Patched(ui.data, Arg(j))
    BY <2>1 DEF ChangeOf
  <2>3. PICK free : free = [ui EXCEPT !.busy = @ \ {Arg(j).sub}]
    OBVIOUS
  <2>4. ui' = [free EXCEPT !.data = Body(j)]
    BY <1>4, <2>1, <2>3 DEF HearPatch, Got, BoardAfter
  <2>5. /\ DOMAIN ui' = DOMAIN ui /\ ui'.data = db /\ ui'.fn = ui.fn /\ ui'.focus = ui.focus
        /\ ui'.draft = ui.draft
    BY <1>0, <1>2, <2>1, <2>3, <2>4
  <2>6. ASSUME NEW s \in Subs, ui.focus # s
        PROVE  ui.draft[s] = db[s].owner_name
    <3>1. db[s].owner_name = IF s = Arg(j).sub /\ Arg(j).field = "owner_name" THEN NewValue(Arg(j))
                             ELSE ui.data[s].owner_name
      BY <2>1, <2>2, PatchedCells DEF ChangeOf
    <3>2. ui.data # Nothing => ui.draft[s] = ui.data[s].owner_name \/ Renames(j, s)
      BY <1>0, <2>6 DEF ScopeOwed
    <3>3. ui.data # Nothing
      BY <2>1 DEF ChangeOf
    <3> QED BY <2>1, <3>1, <3>2, <3>3 DEF Renames, ChangeOf
  <2> QED BY <1>0, <1>1, <2>1, <2>5, <2>6, OneAndNone DEF ScopeOwed
<1>5. CASE HearAbandoned(j)
  <2>1. ui' = ui /\ ui.fn # "hr"
    BY <1>0, <1>5 DEF HearAbandoned, ScopeJob
  <2> QED BY <1>0, <1>1, <2>1, OneAndNone DEF ScopeOwed
<1> QED BY <1>3, <1>4, <1>5

LEMMA ScopeOwe ==
  ASSUME page = "scope", page' = page, RestAct, tidy', calm', Placed(jobs, RestOps), ScopeOwed(jobs, ui, db)
  PROVE  ScopeOwed(jobs', ui', db')
<1>0. \A j \in jobs : j.op \in {"board", "patch"} /\ JobShape(j)
  BY DEF ScopeOwed, ScopeJob, Placed
<1>1. ~GenomeClick /\ ~SpecClick
  BY DEF GenomeClick, OpenVersion, ObjectRow, UnitRow, RatifyBo, RatifyWhole, IndexTab, ObjectsTab, VersionsKey,
     GenomeKey, GenomeDrawn, SpecClick
<1>2. ASSUME NEW j \in jobs, \/ ServeVersions(j) \/ ServeGenome(j) \/ ServeSpec(j) \/ HearVersions(j)
                             \/ HearGenome(j) \/ HearSpecUnits(j) \/ HearSpec(j)
      PROVE  FALSE
  BY <1>0, <1>2 DEF ServeVersions, ServeGenome, ServeSpec, HearVersions, HearGenome, HearSpecUnits, HearSpec,
     Sent, Heard
<1> QED BY <1>0, <1>1, <1>2, ScopeClicks, ScopeServes, ScopeHears DEF RestAct

-----------------------------------------------------------------------------
(* The checks of a unit.                                                   *)

LEMMA SpecFields ==
  /\ DOMAIN CheckUi = {"units", "code", "checkType", "approver", "state", "evidence", "typed", "last", "checks",
                       "error", "info"}
  /\ CheckUi.checks = Nothing
BY DEF CheckUi

LEMMA FormPrefilled ==
  ASSUME DOMAIN ui = DOMAIN CheckUi, NEW new, DOMAIN new = DOMAIN ui, new.checks = ui.checks
  PROVE  DOMAIN Prefilled(ui, new) = DOMAIN ui /\ Prefilled(ui, new).checks = ui.checks
<1>1. \A a, b, c : LET v == [new EXCEPT !.approver = a, !.typed = b, !.state = c]
                   IN DOMAIN v = DOMAIN ui /\ v.checks = ui.checks
  BY SpecFields
<1>2. CASE new.code = Nothing
  BY <1>2 DEF Prefilled
<1>3. CASE new.code # Nothing
  <2>1. PICK state : state = IF new.checkType = "condition" THEN <<new.code, "current">>
                             ELSE IF new.checkType = "acceptance" THEN <<new.code, "desired">> ELSE new.state
    OBVIOUS
  <2>2. Prefilled(ui, new) = [new EXCEPT !.approver = new.code, !.typed = FALSE, !.state = state]
    BY <1>3, <2>1 DEF Prefilled
  <2> QED BY <1>1, <2>2
<1> QED BY <1>2, <1>3

\* Filling the form in leaves the list.
LEMMA FormFilled ==
  ASSUME DOMAIN ui = DOMAIN CheckUi, FillForm
  PROVE  DOMAIN ui' = DOMAIN ui /\ ui'.checks = ui.checks /\ jobs' = jobs /\ db' = db
<1>1. jobs' = jobs /\ db' = db
  BY DEF FillForm, PickUnit, PickType, TypeOver, Looks
<1>2. CASE PickUnit
  <2>1. PICK c : ui' = Prefilled(ui, [ui EXCEPT !.code = c])
    BY <1>2 DEF PickUnit
  <2>2. PICK new : new = [ui EXCEPT !.code = c]
    OBVIOUS
  <2>3. DOMAIN new = DOMAIN ui /\ new.checks = ui.checks
    BY <2>2, SpecFields
  <2> QED BY <1>1, <2>1, <2>2, <2>3, FormPrefilled
<1>3. CASE PickType
  <2>1. PICK t : ui' = Prefilled(ui, [ui EXCEPT !.checkType = t])
    BY <1>3 DEF PickType
  <2>2. PICK new : new = [ui EXCEPT !.checkType = t]
    OBVIOUS
  <2>3. DOMAIN new = DOMAIN ui /\ new.checks = ui.checks
    BY <2>2, SpecFields
  <2> QED BY <1>1, <2>1, <2>2, <2>3, FormPrefilled
<1>4. CASE TypeOver
  BY <1>1, <1>4, SpecFields DEF TypeOver
<1> QED BY <1>2, <1>3, <1>4 DEF FillForm

LEMMA SpecClicks ==
  ASSUME SpecClick, tidy', SpecOwed(jobs, ui, db)
  PROVE  SpecOwed(jobs', ui', db')
<1>0. DOMAIN ui = DOMAIN CheckUi
  BY DEF SpecOwed
<1>1. CASE FillForm
  BY <1>0, <1>1, FormFilled DEF SpecOwed
<1>2. CASE Check \/ ListChecks
  <2>1. PICK op \in {"check", "checks"} : \E arg : Starts({<<op, arg>>})
    BY <1>2 DEF Check, ListChecks
  <2>2. PICK arg : Starts({<<op, arg>>})
    BY <2>1
  <2>3. DOMAIN ui' = DOMAIN ui /\ ui'.checks = ui.checks /\ db' = db
    BY <1>0, <1>2, SpecFields DEF Check, ListChecks, Clicks
  <2>4. jobs = {}
    BY <2>2, PatientClick
  <2>5. PICK m : jobs' = {m} /\ Fresh(m, op, arg) /\ m.live /\ ~Got(m)
    BY <2>2, PatientStart
  <2> QED BY <1>0, <2>3, <2>4, <2>5, OneAndNone DEF SpecOwed, Fresh
<1> QED BY <1>1, <1>2 DEF SpecClick

LEMMA SpecOwe ==
  ASSUME page = "spec", page' = page, RestAct, tidy', calm', Placed(jobs, RestOps), SpecOwed(jobs, ui, db)
  PROVE  SpecOwed(jobs', ui', db')
<1>0. /\ OneAtMost(jobs) /\ DOMAIN ui = DOMAIN CheckUi
      /\ \A j \in jobs : j.live /\ j.op \in {"specUnits", "check", "checks"} /\ JobShape(j)
  BY DEF SpecOwed, Placed
<1>1. ~GenomeClick /\ ~ScopeClick
  BY DEF GenomeClick, OpenVersion, ObjectRow, UnitRow, RatifyBo, RatifyWhole, IndexTab, ObjectsTab, VersionsKey,
     GenomeKey, GenomeDrawn, ScopeClick, SelectFunction, InScope, TypeOwner, BlurOwner, StartInterview, ScopeKey, GridDrawn
<1>2. ASSUME NEW j \in jobs, \/ ServeVersions(j) \/ ServeGenome(j) \/ ServeScope(j) \/ HearVersions(j)
                             \/ HearGenome(j) \/ HearBoard(j) \/ HearPatch(j)
      PROVE  FALSE
  BY <1>0, <1>2 DEF ServeVersions, ServeGenome, ServeScope, HearVersions, HearGenome, HearBoard, HearPatch,
     Sent, Heard
<1>3. ASSUME NEW j \in jobs, ServeSpec(j)
      PROVE  SpecOwed(jobs', ui', db')
  <2>0. ui' = ui /\ ~Got(j)
    BY <1>3 DEF ServeSpec, Serves, Sent, Got
  <2>1. PICK body, rows : Answers(j, "ok", body, rows) /\ (j.op # "check" => rows = db) /\ (j.op = "checks" => body = db)
    BY <1>3 DEF ServeSpec, Sent
  <2>2. db' = rows /\ jobs = {j}
    BY <1>0, <2>1, OnlyAnswer
  <2>3. PICK m : /\ jobs' = {m} /\ m.op = j.op /\ m.live = j.live
                 /\ m.stage = "answered" /\ Got(m) /\ Body(m) = body
    BY <1>0, <2>1, OnlyAnswer
  <2> QED BY <1>0, <2>0, <2>1, <2>2, <2>3, OneAndNone DEF SpecOwed
<1>4. ASSUME NEW j \in jobs, HearSpecUnits(j) \/ HearSpec(j)
      PROVE  SpecOwed(jobs', ui', db')
  <2>0. jobs = {j} /\ Got(j) /\ db' = db
    BY <1>0, <1>4, OnlyJob DEF SpecOwed, HearSpecUnits, HearSpec, Heard, Hears
  <2>1. CASE HearSpecUnits(j)
    <3>1. PICK new : new = [ui EXCEPT !.units = Body(j), !.code = Preferred]
      OBVIOUS
    <3>2. ui' = Prefilled(ui, new) /\ Over(j) /\ j.op = "specUnits"
      BY <2>0, <2>1, <3>1 DEF HearSpecUnits, Heard, Got
    <3>3. DOMAIN new = DOMAIN ui /\ new.checks = ui.checks
      BY <1>0, <3>1, SpecFields
    <3>4. DOMAIN ui' = DOMAIN ui /\ ui'.checks = ui.checks
      BY <1>0, <3>2, <3>3, FormPrefilled
    <3>5. jobs' = {}
      BY <1>0, <3>2, OnlyOver
    <3> QED BY <1>0, <2>0, <3>2, <3>4, <3>5, OneAndNone DEF SpecOwed
  <2>2. CASE Heard(j, "check") /\ HearSpec(j)
    <3>1. ui' = [ui EXCEPT !.last = Body(j), !.info = TRUE, !.error = FALSE] /\ GoesOn(j, "checks", Nothing)
      BY <2>0, <2>2 DEF HearSpec, Heard, Got
    <3>2. PICK m : jobs' = {m} /\ Fresh(m, "checks", Nothing) /\ m.live /\ ~Got(m)
      BY <1>0, <3>1, OnlyNext
    <3>3. DOMAIN ui' = DOMAIN ui
      BY <3>1
    <3> QED BY <1>0, <3>2, <3>3, OneAndNone DEF SpecOwed, Fresh
  <2>3. CASE Heard(j, "checks") /\ HearSpec(j)
    <3>1. ui' = [ui EXCEPT !.checks = Body(j)] /\ Over(j)
      BY <2>0, <2>3 DEF HearSpec, Heard, Got
    <3>2. Body(j) = db
      BY <2>0, <2>3 DEF SpecOwed, Heard
    <3>3. DOMAIN ui' = DOMAIN ui /\ ui'.checks = db
      BY <1>0, <3>1, <3>2, SpecFields
    <3>4. jobs' = {}
      BY <1>0, <3>1, OnlyOver
    <3> QED BY <1>0, <2>0, <3>3, <3>4, OneAndNone DEF SpecOwed
  <2> QED BY <1>4, <2>1, <2>2, <2>3 DEF HearSpec
<1> QED BY <1>1, <1>2, <1>3, <1>4, SpecClicks DEF RestAct

-----------------------------------------------------------------------------
(* Sit close.                                                              *)

LEMMA SitPatient ==
  ASSUME SitAct, tidy', calm'
  PROVE  tidy /\ calm
<1> USE DEF Clicks, Looks, Serves, Hears
<1>1. CASE SitClick
  BY <1>1, PatientClick DEF SitClick, SitKey, NameConfirmer, TypeLine, OnConfirm, OnCorrect
<1>2. CASE SettledElsewhere
  BY <1>2 DEF SettledElsewhere
<1>3. ASSUME NEW j \in jobs, ServeSit(j)
      PROVE  tidy /\ calm
  <2>1. tidy' = tidy
    BY <1>3 DEF ServeSit
  <2>2. \E code, body, rows : Answers(j, code, body, rows)
    BY <1>3 DEF ServeSit, ServeDraft, ServeConfirm
  <2> QED BY <2>1, <2>2 DEF Answers
<1>4. CASE \E j \in jobs : HearLive(j) \/ HearConfirm(j)
  BY <1>4 DEF HearLive, HearSitUnits, HearList, HearPointers, HearDraft, HearCards, HearConfirm
<1> QED BY <1>1, <1>2, <1>3, <1>4 DEF SitAct

LEMMA FirstOfMissing ==
  ASSUME NEW found, Missing(found) # {}
  PROVE  FirstMissing(found) \in RowKeys /\ found[FirstMissing(found)] = Nothing
<1>1. DOMAIN SitRows \subseteq Nat
  BY SitAssumption
<1>2. Missing(found) \subseteq Nat
  BY <1>1 DEF Missing
<1>3. Min(Missing(found)) \in Missing(found)
  BY <1>2, Least
<1>4. PICK i : i = Min(Missing(found))
  OBVIOUS
<1>5. i \in DOMAIN SitRows /\ found[SitRows[i]] = Nothing /\ FirstMissing(found) = SitRows[i]
  BY <1>3, <1>4 DEF Missing, FirstMissing
<1> QED BY <1>5 DEF RowKeys, ToSet

\* The rows of the page, once they are known: a draft is asked for the first
\* field that has none, or they are drawn.
LEMMA SitEnsures ==
  ASSUME {"rows", "unit"} \subseteq DOMAIN ui, OneAtMost(jobs), NEW j \in jobs, db' = db,
         Ensure(j, db.rows, db.pointers)
  PROVE  SitOwed(jobs', ui', db')
<1>1. CASE Missing(db.rows) = {}
  <2>1. ui'.rows = Merged(db.rows)
    BY <1>1 DEF Ensure
  <2>2. PICK m : jobs' = {m} /\ Fresh(m, "cards", Nothing) /\ m.live /\ ~Got(m)
    BY <1>1, OnlyNext DEF Ensure
  <2>3. SitOwedJob(m, ui', db')
    BY <2>2 DEF SitOwedJob, Fresh
  <2> QED BY <2>1, <2>2, <2>3, OneAndNone DEF SitOwed
<1>2. CASE Missing(db.rows) # {}
  <2>1. PICK arg : arg = [field |-> FirstMissing(db.rows), found |-> db.rows, pointers |-> db.pointers]
    OBVIOUS
  <2>2. PICK m : jobs' = {m} /\ Fresh(m, "draft", arg) /\ m.live /\ ~Got(m)
    BY <1>2, <2>1, OnlyNext DEF Ensure
  <2>3. /\ arg.field \in RowKeys /\ db.rows[arg.field] = Nothing
        /\ arg.found = db.rows /\ arg.pointers = db.pointers
    BY <1>2, <2>1, FirstOfMissing
  <2>4. DraftOf(m, db')
    BY <2>2, <2>3 DEF DraftOf, Fresh
  <2>5. SitOwedJob(m, ui', db')
    BY <2>2, <2>4 DEF SitOwedJob, Fresh
  <2> QED BY <2>2, <2>5, OneAndNone DEF SitOwed, Fresh
<1> QED BY <1>1, <1>2

LEMMA SitShownClicks ==
  ASSUME {"rows", "unit"} \subseteq DOMAIN ui, SitClick, tidy', SitOwed(jobs, ui, db)
  PROVE  SitOwed(jobs', ui', db')
<1>1. ui'.rows = ui.rows /\ ui'.unit = ui.unit /\ db' = db
  BY DEF SitClick, SitKey, NameConfirmer, TypeLine, OnConfirm, OnCorrect, Clicks, Looks
<1>2. CASE NameConfirmer \/ TypeLine
  <2>1. jobs' = jobs
    BY <1>2 DEF NameConfirmer, TypeLine, Looks
  <2>2. \A j \in jobs : SitOwedJob(j, ui, db) => SitOwedJob(j, ui', db')
    BY <1>1 DEF SitOwedJob, ConfirmOf
  <2> QED BY <1>1, <2>1, <2>2 DEF SitOwed
<1>3. CASE SitKey
  <2>1. PICK m : jobs' = {m} /\ Fresh(m, "list", Nothing) /\ m.live /\ ~Got(m)
    BY <1>3, PatientStart DEF SitKey, LoadLive
  <2>2. SitOwedJob(m, ui', db')
    BY <2>1 DEF SitOwedJob, Fresh
  <2> QED BY <2>1, <2>2, OneAndNone DEF SitOwed, Fresh
<1>4. CASE OnConfirm \/ OnCorrect
  <2>1. PICK f \in RowKeys : CanWrite(f) /\ \E value : Starts({<<"confirm", [field |-> f, value |-> value]>>})
    BY <1>4 DEF OnConfirm, OnCorrect
  <2>2. PICK value : Starts({<<"confirm", [field |-> f, value |-> value]>>})
    BY <2>1
  <2>3. PICK arg : arg = [field |-> f, value |-> value]
    OBVIOUS
  <2>4. PICK m : jobs' = {m} /\ Fresh(m, "confirm", arg) /\ m.live /\ ~Got(m)
    BY <2>2, <2>3, PatientStart
  <2>5. jobs = {}
    BY <2>2, PatientClick
  <2>6. ui.rows = Merged(db.rows)
    BY <2>1, <2>5 DEF CanWrite, SitOwed
  <2>7. \A k \in RowKeys : ui.rows[k] = SitRow(db.rows[k])
    BY <2>6 DEF Merged
  <2>8. db.rows[f] # Nothing /\ Writable(db.rows[f])
    <3>1. ui.rows[f].row # Nothing /\ ui.rows[f].row.status = "drafted"
      BY <2>1 DEF CanWrite
    <3>2. \A row : SitRow(row).row = row
      BY DEF SitRow
    <3>3. ui.rows[f].row = db.rows[f]
      BY <2>7, <3>2
    <3> QED BY <3>1, <3>3 DEF Writable
  <2>9. ConfirmOf(m, ui', db')
    BY <1>1, <2>3, <2>4, <2>7, <2>8 DEF ConfirmOf, Fresh
  <2>10. SitOwedJob(m, ui', db')
    BY <2>4, <2>9 DEF SitOwedJob, Fresh
  <2> QED BY <1>1, <2>4, <2>6, <2>10, OneAndNone DEF SitOwed
<1> QED BY <1>2, <1>3, <1>4 DEF SitClick

LEMMA SitShownServes ==
  ASSUME {"rows", "column", "pointers"} \subseteq DOMAIN db, SitStored(db.rows, db.column), calm',
         SitOwed(jobs, ui, db), NEW j \in jobs, JobShape(j), ServeSit(j), SitJob(j, db.rows)
  PROVE  SitOwed(jobs', ui', db')
<1>0. OneAtMost(jobs) /\ SitOwedJob(j, ui, db) /\ ui' = ui /\ ~Got(j)
  BY DEF SitOwed, ServeSit, ServeDraft, ServeConfirm, Serves, Sent, Got
<1> DEFINE f == Arg(j).field
<1>1. ASSUME NEW body, NEW rows, Answers(j, "ok", body, rows),
             \A m : /\ m.op = j.op /\ Arg(m) = Arg(j) /\ m.live = j.live
                    /\ m.stage = "answered" /\ Got(m) /\ Body(m) = body
                    => SitOwedJob(m, ui, rows),
             rows = db \/ j.op = "draft" \/ j.op = "confirm"
      PROVE  SitOwed(jobs', ui', db')
  <2>1. db' = rows /\ jobs = {j}
    BY <1>0, <1>1, OnlyAnswer
  <2>2. PICK m : /\ jobs' = {m} /\ m.op = j.op /\ Arg(m) = Arg(j) /\ m.live = j.live
                 /\ m.stage = "answered" /\ Got(m) /\ Body(m) = body
    BY <1>0, <1>1, OnlyAnswer
  <2>3. SitOwedJob(m, ui', db')
    BY <1>0, <1>1, <2>1, <2>2
  <2> QED BY <1>0, <1>1, <2>1, <2>2, <2>3, OneAndNone DEF SitOwed
<1>2. CASE \E body : Sent(j, "sitUnits") /\ Answers(j, "ok", body, db)
  BY <1>0, <1>1, <1>2 DEF SitOwedJob, Sent
<1>3. CASE Sent(j, "list") /\ Answers(j, "ok", db.rows, db)
  BY <1>0, <1>1, <1>3 DEF SitOwedJob, Sent
<1>4. CASE Sent(j, "pointers") /\ Answers(j, "ok", db.pointers, db)
  BY <1>0, <1>1, <1>4 DEF SitOwedJob, Sent
<1>5. CASE Sent(j, "cards") /\ Answers(j, "ok", db.humans, db)
  BY <1>0, <1>1, <1>5 DEF SitOwedJob, Sent
<1>6. CASE ServeDraft(j)
  <2>1. j.op = "draft" /\ DraftOf(j, db)
    BY <1>0, <1>6 DEF ServeDraft, Sent, SitOwedJob
  <2>2. Arg(j).pointers = db.pointers /\ f \in RowKeys /\ db.rows[f] = Nothing /\ Arg(j).found = db.rows
    BY <1>0, <2>1 DEF DraftOf
  <2>3. PICK row : row = Draft(PostedQuote(Arg(j)))
    OBVIOUS
  <2>4. ~(f \in db.pointers /\ row.quote # "pointer")
    BY <2>2, <2>3 DEF Draft, PostedQuote
  <2>5. PICK rows : rows = [db EXCEPT !.rows[f] = row]
    OBVIOUS
  <2>6. ~Settled(db.rows[f])
    BY <2>2 DEF Settled
  <2>7. Answers(j, "ok", row, rows)
    BY <1>6, <2>2, <2>3, <2>4, <2>5, <2>6 DEF ServeDraft
  <2>8. rows.rows = [db.rows EXCEPT ![f] = row] /\ rows.pointers = db.pointers
    BY <2>5
  <2>9. ASSUME NEW m, m.op = j.op /\ Arg(m) = Arg(j) /\ m.live = j.live /\ m.stage = "answered" /\ Got(m) /\ Body(m) = row
        PROVE  SitOwedJob(m, ui, rows)
    <3>1. DraftOf(m, rows)
      BY <2>2, <2>8, <2>9 DEF DraftOf
    <3> QED BY <1>0, <2>1, <2>9, <3>1 DEF SitOwedJob
  <2> QED BY <1>1, <2>1, <2>7, <2>9
<1>7. CASE ServeConfirm(j)
  <2>1. j.op = "confirm" /\ ConfirmOf(j, ui, db)
    BY <1>0, <1>7 DEF ServeConfirm, Sent, SitOwedJob
  <2>2. f \in RowKeys /\ RowShape(db.rows[f]) /\ Writable(db.rows[f])
    BY <1>0, <2>1 DEF ConfirmOf, SitJob, SitArg
  <2>3. PICK rows : rows = SettledWith(db, f, Arg(j).value)
    OBVIOUS
  <2>4. Answers(j, "ok", rows.rows[f], rows)
    BY <1>7, <2>2, <2>3 DEF ServeConfirm
  <2>5. \A k \in RowKeys : k # f => rows.rows[k] = db.rows[k]
    BY <2>2, <2>3, SettlingRows
  <2>6. ASSUME NEW m, m.op = j.op /\ Arg(m) = Arg(j) /\ m.live = j.live /\ m.stage = "answered" /\ Got(m) /\ Body(m) = rows.rows[f]
        PROVE  SitOwedJob(m, ui, rows)
    <3>1. ConfirmOf(m, ui, rows)
      BY <2>1, <2>5, <2>6 DEF ConfirmOf
    <3> QED BY <1>0, <2>1, <2>6, <3>1 DEF SitOwedJob
  <2> QED BY <1>1, <2>1, <2>4, <2>6
<1>8. ~Sent(j, "reread")
  BY <1>0 DEF SitOwedJob, Sent
<1> QED BY <1>2, <1>3, <1>4, <1>5, <1>6, <1>7, <1>8 DEF ServeSit

LEMMA SitShownHears ==
  ASSUME {"rows", "unit"} \subseteq DOMAIN ui, SitSeen(ui.rows, db.rows), DOMAIN db.rows = RowKeys,
         SitOwed(jobs, ui, db), NEW j \in jobs, HearLive(j) \/ HearConfirm(j)
  PROVE  SitOwed(jobs', ui', db')
<1>0. OneAtMost(jobs) /\ SitOwedJob(j, ui, db) /\ jobs = {j} /\ db' = db /\ Got(j)
  BY OnlyJob DEF SitOwed, SitOwedJob, HearLive, HearSitUnits, HearList, HearPointers, HearDraft, HearCards,
     HearConfirm, Hears, Heard
<1>1. j.code = "ok"
  BY <1>0 DEF Got
<1>2. CASE HearSitUnits(j)
  <2>0. j.op = "sitUnits"
    BY <1>2 DEF HearSitUnits, Heard
  <2>1. CASE Body(j)
    <3>1. GoesOn(j, "list", Nothing)
      BY <1>1, <1>2, <2>1 DEF HearSitUnits
    <3>2. PICK m : jobs' = {m} /\ Fresh(m, "list", Nothing) /\ m.live /\ ~Got(m)
      BY <1>0, <3>1, OnlyNext
    <3>3. SitOwedJob(m, ui', db')
      BY <3>2 DEF SitOwedJob, Fresh
    <3> QED BY <3>2, <3>3, OneAndNone DEF SitOwed, Fresh
  <2>2. CASE ~Body(j)
    <3>1. ui'.rows = ui.rows /\ ui'.unit = ui.unit /\ Over(j)
      BY <1>2, <2>2 DEF HearSitUnits
    <3>2. jobs' = {}
      BY <1>0, <3>1, OnlyOver
    <3> QED BY <1>0, <2>0, <3>1, <3>2, OneAndNone DEF SitOwed
  <2> QED BY <2>1, <2>2
<1>3. CASE HearList(j)
  <2>1. GoesOn(j, "pointers", Body(j)) /\ Body(j) = db.rows
    BY <1>0, <1>1, <1>3 DEF HearList, Heard, SitOwedJob
  <2>2. PICK m : jobs' = {m} /\ Fresh(m, "pointers", Body(j)) /\ m.live /\ ~Got(m)
    BY <1>0, <2>1, OnlyNext
  <2>3. SitOwedJob(m, ui', db')
    BY <1>0, <2>1, <2>2 DEF SitOwedJob, Fresh
  <2> QED BY <2>2, <2>3, OneAndNone DEF SitOwed, Fresh
<1>4. CASE HearPointers(j)
  <2>1. Arg(j) = db.rows /\ Body(j) = db.pointers
    BY <1>0, <1>4 DEF HearPointers, Heard, SitOwedJob
  <2>2. Ensure(j, db.rows, db.pointers)
    BY <1>1, <1>4, <2>1 DEF HearPointers
  <2> QED BY <1>0, <2>2, SitEnsures
<1>5. CASE HearDraft(j)
  <2>1. j.op = "draft" /\ DraftOf(j, db)
    BY <1>0, <1>5 DEF HearDraft, Heard, SitOwedJob
  <2>2. db.rows = [Arg(j).found EXCEPT ![Arg(j).field] = Body(j)] /\ Arg(j).pointers = db.pointers
    BY <1>0, <2>1 DEF DraftOf
  <2>3. Ensure(j, db.rows, db.pointers)
    BY <1>1, <1>5, <2>1, <2>2 DEF HearDraft, Heard
  <2> QED BY <1>0, <2>3, SitEnsures
<1>6. CASE HearCards(j)
  <2>1. ui'.rows = ui.rows /\ ui'.unit = ui.unit /\ Over(j) /\ j.op = "cards"
    BY <1>1, <1>6 DEF HearCards, Heard
  <2>2. jobs' = {}
    BY <1>0, <2>1, OnlyOver
  <2> QED BY <1>0, <2>1, <2>2, OneAndNone DEF SitOwed
<1>7. CASE HearConfirm(j)
  <2>1. PICK f : f = Arg(j).field
    OBVIOUS
  <2>2. /\ f \in RowKeys /\ Body(j) = db.rows[f]
        /\ \A k \in RowKeys \ {f} : ui.rows[k] = SitRow(db.rows[k])
    BY <1>0, <1>7, <2>1 DEF HearConfirm, Heard, SitOwedJob, ConfirmOf
  <2>3. ui' = ReplaceRow(f, Body(j)) /\ Over(j)
    BY <1>1, <1>7, <2>1 DEF HearConfirm, AfterConfirm
  <2>4. ui'.rows = [ui.rows EXCEPT ![f] = SitRow(Body(j))]
    BY <2>3 DEF ReplaceRow
  <2>5. ui'.rows = [k \in RowKeys |-> IF k = f THEN SitRow(Body(j)) ELSE ui.rows[k]]
    BY <2>4 DEF SitSeen
  <2>6. ui'.rows = [k \in RowKeys |-> SitRow(db.rows[k])]
    BY <2>2, <2>5
  <2>7. jobs' = {}
    BY <1>0, <2>3, OnlyOver
  <2> QED BY <1>0, <2>6, <2>7, OneAndNone DEF SitOwed, Merged
<1> QED BY <1>2, <1>3, <1>4, <1>5, <1>6, <1>7 DEF HearLive

LEMMA SitOwe ==
  ASSUME page = "sitClose", PlaceInv, SitInv, SitAct, tidy', calm', SitOwed(jobs, ui, db)
  PROVE  SitOwed(jobs', ui', db')
<1>1. /\ {"rows", "unit"} \subseteq DOMAIN ui /\ {"rows", "column", "pointers"} \subseteq DOMAIN db
      /\ \A j \in jobs : JobShape(j) /\ SitJob(j, db.rows)
      /\ SitStored(db.rows, db.column) /\ SitSeen(ui.rows, db.rows) /\ DOMAIN db.rows = RowKeys
  BY DEF PlaceInv, Desks, FieldsOf, TablesOf, SitUi, SitInv, SitStored
<1>2. ~SettledElsewhere
  BY DEF SettledElsewhere
<1> QED BY <1>1, <1>2, SitShownClicks, SitShownServes, SitShownHears DEF SitAct

-----------------------------------------------------------------------------
(* The line of the period.                                                 *)

LEMMA ChroPatient ==
  ASSUME ChroAct, tidy', calm'
  PROVE  tidy /\ calm
<1> USE DEF Clicks, Looks, Serves, Hears
<1>1. CASE ChroClick
  <2>1. calm' = calm
    BY <1>1 DEF ChroClick, TypeAnswer, GoBack, GoNext, ToggleAnchor, UseLiveDraft, SaveEdit, ConfirmLine, ChroKey, SeatKey
  <2>2. tidy' = tidy \/ \E requests : Starts(requests)
    <3>1. \A sentence : UseAsLine(sentence) => tidy' = tidy \/ \E requests : Starts(requests)
      BY DEF UseAsLine
    <3> QED BY <1>1, <3>1 DEF ChroClick, TypeAnswer, GoBack, GoNext, ToggleAnchor, UseLiveDraft, SaveEdit, ConfirmLine,
               ChroKey, SeatKey
  <2> QED BY <2>1, <2>2, PatientClick
<1>2. CASE LineElsewhere
  BY <1>2 DEF LineElsewhere
<1>3. ASSUME NEW j \in jobs, ServeChro(j)
      PROVE  tidy /\ calm
  <2>1. tidy' = tidy
    BY <1>3 DEF ServeChro
  <2>2. \E code, body, rows : Answers(j, code, body, rows)
    BY <1>3 DEF ServeChro
  <2> QED BY <2>1, <2>2 DEF Answers
<1>4. CASE \E j \in jobs : HearChro(j)
  BY <1>4 DEF HearChro, HearSeat, HearMount, HearPut, HearLine
<1> QED BY <1>1, <1>2, <1>3, <1>4 DEF ChroAct

LEMMA LineKeeps ==
  ASSUME NEW v, {"ws", "look"} \subseteq DOMAIN v
  PROVE  WithLine(v).ws = v.ws /\ WithLine(v).look = v.look /\ DOMAIN WithLine(v) = DOMAIN v
<1>1. CASE WithLine(v) = v
  BY <1>1
<1>2. CASE WithLine(v) # v
  <2>1. WithLine(v) = [v EXCEPT !.label = v.ws.label, !.confirmed = v.ws.confirmed]
    BY <1>2 DEF WithLine
  <2> QED BY <2>1
<1> QED BY <1>1, <1>2

\* A click draws on what is there, and sends one request or none.
LEMMA ChroAsks ==
  ASSUME {"look", "ws", "core", "label", "confirmed", "anchors", "step", "busy", "error", "needsKey"} \subseteq DOMAIN ui,
         ChroClick
  PROVE  /\ ui'.ws = ui.ws /\ ui'.look = ui.look /\ db' = db
         /\ jobs' = jobs \/ \E op, arg : Starts({<<op, arg>>})
<1>0. db' = db
  BY DEF ChroClick, TypeAnswer, GoBack, GoNext, ToggleAnchor, UseLiveDraft, SaveEdit, ConfirmLine, ChroKey,
     SeatKey, Looks, Clicks
<1>1. ASSUME NEW sentence, UseAsLine(sentence)
      PROVE  /\ ui'.ws = ui.ws /\ ui'.look = ui.look
             /\ jobs' = jobs \/ \E op, arg : Starts({<<op, arg>>})
  <2>1. PICK core : core = IF ui.core[ThisPeriod] = "" THEN [ui.core EXCEPT ![ThisPeriod] = sentence] ELSE ui.core
    OBVIOUS
  <2>2. PICK arg : arg = [answers |-> ToSave(ui, core, ui.anchors), sentence |-> sentence, ws |-> ui.ws # NoLine]
    OBVIOUS
  <2>3. jobs' = jobs \/ Starts({<<"putLine", arg>>}) \/ Starts({AfterSaving(arg)})
    BY <1>1, <2>1, <2>2 DEF UseAsLine
  <2>4. AfterSaving(arg) = <<"draftLine", arg>> \/ AfterSaving(arg) = <<"ensureWs", arg>>
    BY DEF AfterSaving
  <2>5. PICK v : /\ ui' = IF core = ui.core THEN v ELSE WithLine([v EXCEPT !.core = core])
                 /\ \/ v = [[ui EXCEPT !.error = FALSE] EXCEPT !.label = sentence, !.confirmed = FALSE]
                    \/ v = [[ui EXCEPT !.error = FALSE] EXCEPT !.error = TRUE]
                    \/ v = [[ui EXCEPT !.error = FALSE] EXCEPT !.busy = TRUE]
    BY <1>1, <2>1 DEF UseAsLine
  <2>6. DOMAIN v = DOMAIN ui /\ v.ws = ui.ws /\ v.look = ui.look
    BY <2>5
  <2>7. PICK w : w = [v EXCEPT !.core = core]
    OBVIOUS
  <2>8. w.ws = ui.ws /\ w.look = ui.look /\ DOMAIN w = DOMAIN ui
    BY <2>6, <2>7
  <2>9. ui'.ws = ui.ws /\ ui'.look = ui.look
    BY <2>5, <2>6, <2>7, <2>8, LineKeeps
  <2> QED BY <2>3, <2>4, <2>9
<1>2. CASE TypeAnswer
  <2>1. PICK text : ui' = WithLine([ui EXCEPT !.core[CoreIds[ui.step]] = text])
    BY <1>2 DEF TypeAnswer
  <2>2. PICK v : v = [ui EXCEPT !.core[CoreIds[ui.step]] = text]
    OBVIOUS
  <2>3. v.ws = ui.ws /\ v.look = ui.look /\ DOMAIN v = DOMAIN ui
    BY <2>2
  <2>4. jobs' = jobs
    BY <1>2 DEF TypeAnswer, Looks
  <2> QED BY <1>0, <2>1, <2>2, <2>3, <2>4, LineKeeps
<1>3. CASE GoBack \/ ChroKey
  BY <1>0, <1>3 DEF GoBack, ChroKey, Looks
<1>4. CASE GoNext
  <2>1. jobs' = jobs \/ \E arg : Starts({<<"putNext", arg>>})
    BY <1>4 DEF GoNext
  <2>2. ui'.ws = ui.ws /\ ui'.look = ui.look
    BY <1>4 DEF GoNext
  <2> QED BY <1>0, <2>1, <2>2
<1>5. CASE ToggleAnchor
  <2>1. PICK anchors : /\ ui' = WithLine([ui EXCEPT !.anchors = anchors])
                       /\ \/ UNCHANGED jobs
                          \/ Starts({<<"putAnchor", [answers |-> ToSave(ui, ui.core, anchors)]>>})
    BY <1>5 DEF ToggleAnchor
  <2>2. PICK v : v = [ui EXCEPT !.anchors = anchors]
    OBVIOUS
  <2>3. v.ws = ui.ws /\ v.look = ui.look /\ DOMAIN v = DOMAIN ui
    BY <2>2
  <2> QED BY <1>0, <2>1, <2>2, <2>3, LineKeeps
<1>6. CASE UseLiveDraft \/ SaveEdit
  BY <1>0, <1>1, <1>6 DEF UseLiveDraft, SaveEdit
<1>7. CASE ConfirmLine
  BY <1>0, <1>7 DEF ConfirmLine
<1>8. CASE SeatKey
  BY <1>0, <1>8 DEF SeatKey
<1> QED BY <1>2, <1>3, <1>4, <1>5, <1>6, <1>7, <1>8 DEF ChroClick

LEMMA ChroShownClicks ==
  ASSUME {"look", "ws", "core", "label", "confirmed", "anchors", "step", "busy", "error", "needsKey"} \subseteq DOMAIN ui,
         ChroClick, tidy', ChroOwed(jobs, ui, db)
  PROVE  ChroOwed(jobs', ui', db')
<1>1. ui'.ws = ui.ws /\ ui'.look = ui.look /\ db' = db
  BY ChroAsks
<1>2. CASE jobs' = jobs
  BY <1>1, <1>2 DEF ChroOwed
<1>3. ASSUME NEW op, NEW arg, Starts({<<op, arg>>})
      PROVE  ChroOwed(jobs', ui', db')
  <2>1. PICK m : jobs' = {m} /\ Fresh(m, op, arg) /\ m.live /\ ~Got(m)
    BY <1>3, PatientStart
  <2>2. jobs = {}
    BY <1>3, PatientClick
  <2>3. ChroOwedJob(m, db')
    BY <2>1 DEF ChroOwedJob, Fresh
  <2> QED BY <1>1, <2>1, <2>2, <2>3 DEF ChroOwed, ChroJobs
<1> QED BY <1>2, <1>3, ChroAsks

\* A handler goes on with one request, or is over.
LEMMA ChroReplaced ==
  ASSUME NEW js, NEW rows, ChroJobs(js, rows), NEW j \in js, NEW next, next.ws = rows.ws \/ j.op \notin SeatOps,
         NEW m, NEW ks, ks \subseteq (js \ {j}) \cup {m},
         m \in ks => ChroOwedJob(m, next) /\ (m.op \in SeatOps \/ j.op \notin SeatOps)
  PROVE  ChroJobs(ks, next)
<1>1. ASSUME NEW k \in ks
      PROVE  ChroOwedJob(k, next)
  <2>1. CASE k # m
    <3>1. k \in js \ {j} /\ ChroOwedJob(k, rows)
      BY <1>1, <2>1 DEF ChroJobs
    <3>2. CASE next.ws = rows.ws
      BY <3>1, <3>2 DEF ChroOwedJob
    <3>3. CASE j.op \notin SeatOps
      <4>1. k.op \in SeatOps
        BY <3>1, <3>3 DEF ChroJobs
      <4> QED BY <3>1, <4>1 DEF ChroOwedJob, SeatOps, LineOps
    <3> QED BY <3>2, <3>3
  <2> QED BY <1>1, <2>1
<1>2. ASSUME NEW k \in ks, NEW l \in ks, k.op \notin SeatOps, l.op \notin SeatOps
      PROVE  k = l
  BY <1>2 DEF ChroJobs
<1> QED BY <1>1, <1>2 DEF ChroJobs

LEMMA ChroShownServes ==
  ASSUME {"session", "answers", "ws"} \subseteq DOMAIN db, calm',
         ChroOwed(jobs, ui, db), NEW j \in jobs, JobShape(j), ServeChro(j)
  PROVE  ChroOwed(jobs', ui', db')
<1>0. ChroJobs(jobs, db) /\ j.live /\ ui' = ui /\ j.stage = "sent" /\ ~Got(j)
  BY DEF ChroOwed, ChroJobs, ChroOwedJob, ServeChro, Serves, Sent, Got
<1>1. ASSUME NEW code, NEW body, NEW rows, Answers(j, code, body, rows),
             rows.ws = db.ws \/ j.op \in LineOps \cup {"ws"},
             j.op \in LineOps \cup {"ws"} => \/ code = "ok" /\ body = rows.ws
                                             \/ j.op # "ws" /\ code # "ok" /\ rows.ws = db.ws
      PROVE  ChroOwed(jobs', ui', db')
  <2>1. db' = rows
    BY <1>1, PatientAnswer
  <2>2. PICK m : /\ jobs' = (jobs \ {j}) \cup {m}
                 /\ m.op = j.op /\ m.live = j.live /\ m.stage = "answered" /\ m.code = code /\ Body(m) = body
    BY <1>1, PatientAnswer
  <2>3. ChroOwedJob(m, rows)
    BY <1>0, <1>1, <2>2 DEF ChroOwedJob, Got
  <2>4. rows.ws = db.ws \/ j.op \notin SeatOps
    BY <1>1 DEF LineOps, SeatOps
  <2>5. ChroJobs(jobs', rows)
    <3>1. jobs' \subseteq (jobs \ {j}) \cup {m} /\ (m.op \in SeatOps \/ j.op \notin SeatOps)
      BY <2>2
    <3> QED BY <1>0, <2>3, <2>4, <3>1, ChroReplaced
  <2>6. CASE j.op \in LineOps \cup {"ws"} /\ code = "ok"
    <3>1. LineTold(m)
      BY <2>2, <2>6 DEF LineTold, Got
    <3> QED BY <2>1, <2>2, <2>5, <3>1 DEF ChroOwed
  <2>7. CASE ~(j.op \in LineOps \cup {"ws"} /\ code = "ok")
    <3>1. rows.ws = db.ws /\ ~LineTold(j)
      BY <1>0, <1>1, <2>7 DEF LineTold, Got
    <3>2. \A k \in jobs : LineTold(k) => k \in jobs'
      BY <2>2, <3>1
    <3> QED BY <1>0, <2>1, <2>5, <3>1, <3>2 DEF ChroOwed
  <2> QED BY <2>6, <2>7
<1>2. CASE \E body : Sent(j, "seat") /\ Answers(j, "ok", body, db)
  BY <1>1, <1>2 DEF Sent, LineOps
<1>3. CASE \E body : Sent(j, "answers") /\ Answers(j, "ok", body, db)
  BY <1>1, <1>3 DEF Sent, LineOps
<1>4. CASE Sent(j, "newSeat") /\ Answers(j, "ok", TRUE, [db EXCEPT !.session = TRUE])
  <2>1. PICK rows : rows = [db EXCEPT !.session = TRUE]
    OBVIOUS
  <2>2. rows.ws = db.ws
    BY <2>1
  <2> QED BY <1>1, <1>4, <2>1, <2>2 DEF Sent, LineOps
<1>5. CASE j.op \in {"ws", "ensureWs"} /\ Answers(j, "ok", EnsuredWs.ws, EnsuredWs)
  BY <1>1, <1>5 DEF LineOps
<1>6. CASE j.op \in AnswersPut /\ Answers(j, "ok", <<>>, [db EXCEPT !.answers = Arg(j).answers])
  <2>1. PICK rows : rows = [db EXCEPT !.answers = Arg(j).answers]
    OBVIOUS
  <2>2. rows.ws = db.ws
    BY <2>1
  <2> QED BY <1>1, <1>6, <2>1, <2>2 DEF AnswersPut, LineOps
<1>7. CASE j.op = "draftLine" /\ \E rows : Answers(j, "ok", rows.ws, rows) \/ Answers(j, "refused", Nothing, db)
  BY <1>1, <1>7 DEF LineOps
<1>8. CASE j.op = "confirmLine" /\ \E rows : Answers(j, "ok", rows.ws, rows) \/ Answers(j, "conflict", Nothing, db)
  BY <1>1, <1>8 DEF LineOps
<1> QED BY <1>2, <1>3, <1>4, <1>5, <1>6, <1>7, <1>8 DEF ServeChro, Sent

LEMMA ChroShownHears ==
  ASSUME {"look", "ws", "core", "label", "confirmed", "anchors", "step", "busy", "error", "needsKey", "session", "seatKey",
          "stored"} \subseteq DOMAIN ui,
         ChroOwed(jobs, ui, db), NEW j \in jobs, HearChro(j)
  PROVE  ChroOwed(jobs', ui', db')
<1>0. ChroJobs(jobs, db) /\ ChroOwedJob(j, db) /\ db' = db
  BY DEF ChroOwed, ChroJobs, HearChro, HearSeat, HearMount, HearPut, HearLine, Hears
<1> DEFINE Same(v) == v.ws = ui.ws /\ v.look = ui.look
           Next1 == Over(j) \/ \E op, arg : GoesOn(j, op, arg) /\ (op \in SeatOps \/ j.op \notin SeatOps)
<1>1. ASSUME Next1
      PROVE  ChroJobs(jobs', db') /\ \A k \in jobs : k # j => k \in jobs'
  <2>1. CASE Over(j)
    BY <1>0, <2>1, ChroReplaced DEF Over
  <2>2. ASSUME NEW op, NEW arg, GoesOn(j, op, arg), op \in SeatOps \/ j.op \notin SeatOps
        PROVE  ChroJobs(jobs', db') /\ \A k \in jobs : k # j => k \in jobs'
    <3>1. PICK m : jobs' = (jobs \ {j}) \cup {m} /\ Fresh(m, op, arg) /\ m.live /\ ~Got(m)
      BY <2>2, PatientNext
    <3>2. ChroOwedJob(m, db) /\ m.op = op
      BY <3>1 DEF ChroOwedJob, Fresh
    <3>3. jobs' \subseteq (jobs \ {j}) \cup {m} /\ (m.op \in SeatOps \/ j.op \notin SeatOps)
      BY <2>2, <3>1, <3>2
    <3>4. ChroJobs(jobs', db)
      BY <1>0, <3>2, <3>3, ChroReplaced
    <3> QED BY <1>0, <3>1, <3>4
  <2> QED BY <1>1, <2>1, <2>2
<1>2. ASSUME Next1, Same(ui'), ~LineTold(j)
      PROVE  ChroOwed(jobs', ui', db')
  BY <1>0, <1>1, <1>2 DEF ChroOwed
<1>3. ASSUME Next1, ui'.ws = db.ws
      PROVE  ChroOwed(jobs', ui', db')
  BY <1>0, <1>1, <1>3 DEF ChroOwed
<1>4. \A v : v = Failed(ui, j) \/ v = [Failed(ui, j) EXCEPT !.busy = FALSE] => Same(v)
  BY DEF Failed
<1>5. Got(j) /\ j.op \in LineOps \cup {"ws"} => Body(j) = db.ws
  BY <1>0 DEF ChroOwedJob
<1>6. CASE HearSeat(j)
  <2>1. Same(ui')
    BY <1>6 DEF HearSeat
  <2>2. Next1
    BY <1>6 DEF HearSeat, SeatOps
  <2>3. ~LineTold(j)
    BY <1>6 DEF HearSeat, Heard, LineTold, LineOps
  <2> QED BY <1>2, <2>1, <2>2, <2>3
<1>7. CASE HearMount(j)
  <2>0. Over(j)
    BY <1>7 DEF HearMount
  <2>1. CASE Heard(j, "ws")
    <3>1. Got(j) /\ j.code = "ok" /\ j.op = "ws"
      BY <1>0, <2>1 DEF ChroOwedJob, Heard, Got
    <3>2. PICK v : v = [ui EXCEPT !.ws = Body(j)]
      OBVIOUS
    <3>3. ui' = WithLine(v)
      BY <1>7, <3>1, <3>2 DEF HearMount, Heard
    <3>4. v.ws = db.ws /\ DOMAIN v = DOMAIN ui
      BY <1>5, <3>1, <3>2
    <3> QED BY <1>3, <2>0, <3>3, <3>4, LineKeeps
  <2>2. CASE Heard(j, "answers") /\ HearMount(j)
    <3>1. PICK v : v = [ui EXCEPT !.stored = Body(j).core, !.core = MergedCore(ui, Body(j)),
                                  !.anchors = @ \cup Body(j).anchors]
      OBVIOUS
    <3>2. ui' = Failed(ui, j) \/ ui' = WithLine(v)
      BY <2>2, <3>1 DEF HearMount, Heard
    <3>3. Same(v) /\ DOMAIN v = DOMAIN ui
      BY <3>1
    <3>4. Same(ui')
      BY <1>4, <3>2, <3>3, LineKeeps
    <3>5. ~LineTold(j)
      BY <2>2 DEF Heard, LineTold, LineOps
    <3> QED BY <1>2, <2>0, <3>4, <3>5
  <2> QED BY <1>7, <2>1, <2>2 DEF HearMount
<1>8. CASE HearPut(j)
  <2>1. Same(ui')
    <3>1. ui' = ui \/ ui' = [ui EXCEPT !.step = Arg(j).step] \/ ui' = Failed(ui, j)
          \/ ui' = [Failed(ui, j) EXCEPT !.busy = FALSE]
      BY <1>8 DEF HearPut
    <3> QED BY <1>4, <3>1
  <2>2. j.op \in {"putNext", "putAnchor", "putLine"}
    BY <1>8 DEF HearPut, Heard
  <2>3. Next1
    BY <1>8, <2>2 DEF HearPut, SeatOps
  <2>4. ~LineTold(j)
    BY <2>2 DEF LineTold, LineOps
  <2> QED BY <1>2, <2>1, <2>3, <2>4
<1>9. CASE HearLine(j)
  <2>0. j.op \in LineOps
    BY <1>9 DEF HearLine, Heard, LineOps
  <2>1. Next1
    BY <1>9, <2>0 DEF HearLine, SeatOps, LineOps
  <2>2. CASE j.code # "ok"
    <3>1. Same(ui')
      BY <1>4, <1>9, <2>2 DEF HearLine
    <3>2. ~LineTold(j)
      BY <2>0, <2>2 DEF LineTold, LineOps, Got
    <3> QED BY <1>2, <2>1, <3>1, <3>2
  <2>3. CASE j.code = "ok"
    <3>1. Body(j) = db.ws
      BY <1>5, <1>9, <2>0, <2>3 DEF HearLine, Heard, Got
    <3>2. ASSUME NEW v, v.ws = Body(j), DOMAIN v = DOMAIN ui
          PROVE  WithLine(v).ws = db.ws /\ DOMAIN WithLine(v) = DOMAIN ui
      BY <3>1, <3>2, LineKeeps
    <3>3. PICK v : v = [ui EXCEPT !.ws = Body(j)]
      OBVIOUS
    <3>4. PICK w : w = [ui EXCEPT !.ws = Body(j), !.label = Body(j).label, !.confirmed = Body(j).confirmed, !.busy = FALSE]
      OBVIOUS
    <3>5. v.ws = Body(j) /\ DOMAIN v = DOMAIN ui /\ w.ws = Body(j) /\ DOMAIN w = DOMAIN ui
      BY <3>3, <3>4
    <3>6. \/ ui' = WithLine(v) \/ ui' = WithLine(w)
          \/ ui' = [WithLine(w) EXCEPT !.needsKey = FALSE]
      BY <1>9, <2>3, <3>3, <3>4 DEF HearLine, WithWs
    <3>7. ui'.ws = db.ws
      <4>1. WithLine(v).ws = db.ws /\ WithLine(w).ws = db.ws /\ DOMAIN WithLine(w) = DOMAIN ui
        BY <3>2, <3>5
      <4> QED BY <3>6, <4>1
    <3> QED BY <1>3, <2>1, <3>7
  <2> QED BY <2>2, <2>3
<1> QED BY <1>6, <1>7, <1>8, <1>9 DEF HearChro

LEMMA ChroOwe ==
  ASSUME page = "chro", PlaceInv, ChroAct, tidy', calm', ChroOwed(jobs, ui, db)
  PROVE  ChroOwed(jobs', ui', db')
<1>1. /\ {"look", "sample", "step", "session", "ws", "core", "stored", "anchors", "pack", "label",
          "confirmed", "busy", "error", "needsKey", "seatKey"} \subseteq DOMAIN ui
      /\ {"session", "answers", "ws"} \subseteq DOMAIN db
      /\ \A j \in jobs : JobShape(j)
  BY ChroFields
<1>2. ~LineElsewhere
  BY DEF LineElsewhere
<1> QED BY <1>1, <1>2, ChroShownClicks, ChroShownServes, ChroShownHears DEF ChroAct

-----------------------------------------------------------------------------
(* The evidence.                                                           *)

LEMMA EvidencePatient ==
  ASSUME EvidenceAct, tidy', calm'
  PROVE  tidy /\ calm
<1> USE DEF Looks, Serves, Hears
<1>1. CASE EvidenceClick \/ PointerElsewhere
  BY <1>1 DEF EvidenceClick, PointerElsewhere
<1>2. ASSUME NEW j \in jobs, ServeEvidence(j)
      PROVE  tidy /\ calm
  <2>1. tidy' = tidy
    BY <1>2 DEF ServeEvidence
  <2>2. \E code, body, rows : Answers(j, code, body, rows)
    BY <1>2 DEF ServeEvidence
  <2> QED BY <2>1, <2>2 DEF Answers
<1>3. CASE \E j \in jobs : HearEvidence(j)
  BY <1>3 DEF HearEvidence, HearPair, HearClaims, HearLists
<1> QED BY <1>1, <1>2, <1>3 DEF EvidenceAct

LEMMA ReadingReplaced ==
  ASSUME NEW js, NEW j \in js, NEW m
  PROVE  /\ m.op = j.op /\ Arg(m) = Arg(j) => Reading((js \ {j}) \cup {m}) = Reading(js)
         /\ j.op # "claims" => Reading(js \ {j}) = Reading(js)
         /\ Reading(js) \ {Arg(j)} \subseteq Reading(js \ {j})
         /\ Reading(js \ {j}) \subseteq Reading(js)
         /\ m.op = "claims" => Reading((js \ {j}) \cup {m}) = Reading(js \ {j}) \cup {Arg(m)}
         /\ j.op = "claims" => Arg(j) \in Reading(js)
BY DEF Reading

LEMMA EvidenceShownServes ==
  ASSUME calm', EvidenceOwed(jobs, ui, db), NEW j \in jobs, JobShape(j), ServeEvidence(j)
  PROVE  EvidenceOwed(jobs', ui', db')
<1>1. PICK body : Answers(j, "ok", body, db) /\ EvidenceBody(j.op, Arg(j), body, db)
  BY DEF ServeEvidence, Sent, EvidenceBody
<1>2. ui' = ui /\ db' = db
  BY <1>1, PatientAnswer DEF ServeEvidence, Serves
<1>3. PICK m : /\ jobs' = (jobs \ {j}) \cup {m}
               /\ m.op = j.op /\ Arg(m) = Arg(j) /\ m.live = j.live
               /\ m.stage = "answered" /\ m.code = "ok" /\ Body(m) = body
  BY <1>1, PatientAnswer
<1>4. EvidenceJob(j, db)
  BY DEF EvidenceOwed
<1>5. EvidenceJob(m, db)
  BY <1>1, <1>3, <1>4 DEF EvidenceJob, Got
<1>6. Reading(jobs') = Reading(jobs)
  <2>1. m.op = j.op /\ Arg(m) = Arg(j)
    BY <1>3
  <2>2. Reading((jobs \ {j}) \cup {m}) = Reading(jobs)
    BY <2>1 DEF Reading
  <2> QED BY <1>3, <2>2
<1>7. \A op : Asks(jobs, op) => Asks(jobs', op)
  BY <1>3 DEF Asks
<1>8. ListsOwed(jobs', ui', db')
  BY <1>2, <1>7 DEF EvidenceOwed, ListsOwed
<1> QED BY <1>2, <1>3, <1>5, <1>6, <1>8 DEF EvidenceOwed

LEMMA HeadOfTrail ==
  ASSUME NEW s, IsTrail(s), s # <<>>
  PROVE  /\ IsTrail(Tail(s)) /\ Head(s) \in ToSet(s)
         /\ ToSet(Tail(s)) \subseteq ToSet(s) /\ ToSet(s) \subseteq ToSet(Tail(s)) \cup {Head(s)}
<1>1. PICK S : s \in Seq(S)
  BY DEF IsTrail
<1>2. /\ Tail(s) \in Seq(S) /\ Len(Tail(s)) = Len(s) - 1
      /\ \A i \in 1 .. Len(Tail(s)) : Tail(s)[i] = s[i + 1]
  BY <1>1, HeadTailProperties
<1>3. Len(s) \in Nat \ {0} /\ DOMAIN s = 1 .. Len(s) /\ DOMAIN Tail(s) = 1 .. Len(s) - 1
  BY <1>1, <1>2, EmptySeq, LenProperties
<1>4. Head(s) = s[1]
  BY <1>1, <1>3
<1>5. Head(s) \in ToSet(s)
  BY <1>3, <1>4 DEF ToSet
<1>6. ASSUME NEW i \in DOMAIN Tail(s)
      PROVE  Tail(s)[i] \in ToSet(s)
  <2>1. i + 1 \in DOMAIN s /\ Tail(s)[i] = s[i + 1]
    BY <1>2, <1>3
  <2> QED BY <2>1 DEF ToSet
<1>7. ASSUME NEW i \in DOMAIN s
      PROVE  s[i] \in ToSet(Tail(s)) \cup {Head(s)}
  <2>1. CASE i = 1
    BY <1>4, <2>1
  <2>2. CASE i # 1
    <3>1. i - 1 \in DOMAIN Tail(s) /\ s[i] = Tail(s)[i - 1]
      BY <1>2, <1>3, <2>2
    <3> QED BY <3>1 DEF ToSet
  <2> QED BY <2>1, <2>2
<1> QED BY <1>2, <1>5, <1>6, <1>7 DEF IsTrail, ToSet

LEMMA LeastIsLeast ==
  ASSUME NEW S, S # {}, S \subseteq Nat
  PROVE  \A x \in S : Min(S) <= x
<1>1. PICK x \in S : \A y \in S : ~ (<<y, x>> \in OpToRel(<, Nat))
  BY NatLessThanWellFounded, WFMin
<1>2. ASSUME NEW y \in S
      PROVE  x <= y
  <2>1. <<y, x>> \in Nat \X Nat
    OBVIOUS
  <2>2. ~ (y < x)
    BY <1>1, <2>1 DEF OpToRel
  <2> QED BY <2>2
<1> QED BY <1>2 DEF Min

\* The pool takes as many units as it may, and the rest waits.
Pooling(js, ks, now, rest) ==
  /\ now = Min({Limit, Len(ClaimUnits)}) /\ rest = SubSeq(ClaimUnits, Limit + 1, Len(ClaimUnits))
  /\ \A k \in ks : k \in js \/ \E i \in 1 .. now : k = Job("claims", ClaimUnits[i], 0)
  /\ \A i \in 1 .. now : Job("claims", ClaimUnits[i], 0) \in ks

LEMMA PoolTakes ==
  ASSUME NEW js, NEW ks, NEW now, NEW rest, Pooling(js, ks, now, rest)
  PROVE  /\ \A k \in ks : k \in js \/ (Fresh(k, "claims", Arg(k)) /\ k.live /\ Arg(k) \in Claimed)
         /\ IsTrail(rest) /\ ToSet(rest) \subseteq Claimed
         /\ Claimed \subseteq ToSet(rest) \cup Reading(ks)
         /\ Reading(ks) # {}
<1>0. /\ now = Min({Limit, Len(ClaimUnits)}) /\ rest = SubSeq(ClaimUnits, Limit + 1, Len(ClaimUnits))
      /\ \A k \in ks : k \in js \/ \E i \in 1 .. now : k = Job("claims", ClaimUnits[i], 0)
      /\ \A i \in 1 .. now : Job("claims", ClaimUnits[i], 0) \in ks
  BY DEF Pooling
<1>1. ClaimUnits \in Seq(Claimed) /\ ClaimUnits # <<>> /\ Limit \in Nat \ {0}
  BY EvidenceAssumption DEF Claimed
<1>2. Len(ClaimUnits) \in Nat \ {0} /\ DOMAIN ClaimUnits = 1 .. Len(ClaimUnits)
  BY <1>1, EmptySeq, LenProperties
<1>3. /\ now \in Nat /\ Limit \in Nat /\ Len(ClaimUnits) \in Nat /\ 1 <= now
      /\ now = Limit \/ now = Len(ClaimUnits)
      /\ now <= Limit /\ now <= Len(ClaimUnits)
  <2>1. now \in {Limit, Len(ClaimUnits)}
    BY <1>0, <1>1, <1>2, Least
  <2>2. now <= Limit /\ now <= Len(ClaimUnits)
    BY <1>0, <1>1, <1>2, LeastIsLeast
  <2>3. Limit \in Nat /\ 1 <= Limit /\ Len(ClaimUnits) \in Nat /\ 1 <= Len(ClaimUnits)
    BY <1>1, <1>2
  <2>4. now = Limit \/ now = Len(ClaimUnits)
    BY <2>1
  <2>5. now \in Nat /\ 1 <= now
    BY <2>3, <2>4
  <2> QED BY <2>2, <2>3, <2>4, <2>5
<1>4. \A i \in 1 .. Len(ClaimUnits) : ClaimUnits[i] \in Claimed
  BY <1>1, ElementOfSeq
<1>5. /\ rest \in Seq(Claimed)
      /\ Len(rest) = IF Limit + 1 <= Len(ClaimUnits) THEN Len(ClaimUnits) - (Limit + 1) + 1 ELSE 0
      /\ \A i \in 1 .. Len(ClaimUnits) - (Limit + 1) + 1 : rest[i] = ClaimUnits[(Limit + 1) + i - 1]
  <2>1. Limit + 1 \in Int /\ Len(ClaimUnits) \in Int
    BY <1>1, <1>2
  <2>2. \A i \in (Limit + 1) .. Len(ClaimUnits) : ClaimUnits[i] \in Claimed
    BY <1>1, <1>2, <1>4
  <2> QED BY <1>0, <2>1, <2>2, SubSeqProperties
<1>6. DOMAIN rest = 1 .. Len(rest)
  BY <1>5, LenProperties
<1>7. \A i : LET m == Job("claims", ClaimUnits[i], 0)
             IN Fresh(m, "claims", Arg(m)) /\ m.live /\ Arg(m) = ClaimUnits[i] /\ m.op = "claims"
  BY JobMade DEF Fresh, Job
<1>8. \A k \in ks : k \in js \/ (Fresh(k, "claims", Arg(k)) /\ k.live /\ Arg(k) \in Claimed)
  <2>1. ASSUME NEW k \in ks, k \notin js
        PROVE  Fresh(k, "claims", Arg(k)) /\ k.live /\ Arg(k) \in Claimed
    <3>1. PICK i \in 1 .. now : k = Job("claims", ClaimUnits[i], 0)
      BY <1>0, <2>1
    <3>2. i \in 1 .. Len(ClaimUnits)
      BY <1>3
    <3>3. Fresh(k, "claims", Arg(k)) /\ k.live /\ Arg(k) = ClaimUnits[i]
      BY <1>7, <3>1
    <3> QED BY <1>4, <3>2, <3>3
  <2> QED BY <2>1
<1>9. IsTrail(rest) /\ ToSet(rest) \subseteq Claimed
  <2>1. \A i \in 1 .. Len(rest) : rest[i] \in Claimed
    BY <1>5, ElementOfSeq
  <2> QED BY <1>5, <1>6, <2>1 DEF IsTrail, ToSet
<1>10. \A i \in 1 .. now : ClaimUnits[i] \in Reading(ks)
  BY <1>0, <1>7 DEF Reading
<1>11. ASSUME NEW i \in 1 .. Len(ClaimUnits)
       PROVE  ClaimUnits[i] \in ToSet(rest) \cup Reading(ks)
  <2>1. CASE i <= now
    <3>1. i \in 1 .. now
      BY <1>3, <2>1
    <3> QED BY <1>10, <3>1
  <2>2. CASE i > now
    <3>1. now = Limit /\ Limit + 1 <= i
      BY <1>3, <2>2
    <3>2. /\ i - Limit \in 1 .. Len(ClaimUnits) - (Limit + 1) + 1 /\ Limit + 1 <= Len(ClaimUnits)
          /\ (Limit + 1) + (i - Limit) - 1 = i
      BY <1>1, <1>2, <3>1
    <3>3. i - Limit \in DOMAIN rest /\ rest[i - Limit] = ClaimUnits[i]
      BY <1>5, <1>6, <3>2
    <3> QED BY <3>3 DEF ToSet
  <2>3. i <= now \/ i > now
    BY <1>3
  <2> QED BY <2>1, <2>2, <2>3
<1>12. Claimed \subseteq ToSet(rest) \cup Reading(ks)
  BY <1>2, <1>11 DEF Claimed, ToSet
<1>13. Reading(ks) # {}
  <2>1. 1 \in 1 .. now
    BY <1>3
  <2> QED BY <1>10, <2>1
<1> QED BY <1>8, <1>9, <1>12, <1>13

LEMMA EvidencePairs ==
  ASSUME page = "evidence", PlaceInv, EvidenceOwed(jobs, ui, db), NEW j \in jobs, HearPair(j)
  PROVE  EvidenceOwed(jobs', ui', db')
<1>0. /\ {"units", "files", "queue", "read", "claims", "loading", "error", "needsKey", "catalogue", "gaps"}
           \subseteq DOMAIN ui
      /\ db' = db /\ EvidenceJob(j, db)
      /\ ListsOwed(jobs, ui, db) /\ PoolOwes(Reading(jobs), ui, db)
      /\ db.rows = [x \in Claimed |-> db.rows[x]] /\ db.files # Nothing
  BY EvidenceFields DEF EvidenceOwed, HearPair, Hears
<1>1. j.op \in {"claimUnits", "claimFiles"} /\ j.code = "ok" /\ EvidenceBody(j.op, Arg(j), Body(j), db)
  BY <1>0 DEF HearPair, Heard, EvidenceJob, Got
<1>2. PICK got : got = IF j.op = "claimUnits" THEN [ui EXCEPT !.units = Body(j)] ELSE [ui EXCEPT !.files = Body(j)]
  OBVIOUS
<1>3. /\ DOMAIN got = DOMAIN ui /\ got.queue = ui.queue /\ got.read = ui.read /\ got.claims = ui.claims
      /\ got.loading = ui.loading /\ got.catalogue = ui.catalogue /\ got.gaps = ui.gaps
      /\ got.units = IF j.op = "claimUnits" THEN ClaimUnits ELSE ui.units
      /\ got.files = IF j.op = "claimFiles" THEN db.files ELSE ui.files
  BY <1>0, <1>1, <1>2 DEF EvidenceBody
<1>4. ClaimUnits # Nothing
  BY EvidenceAssumption
<1>5. Reading(jobs \ {j}) = Reading(jobs)
  BY <1>1, ReadingReplaced
<1>6. \A op \in {"claimUnits", "claimFiles", "catalogue", "gaps"} : Asks(jobs, op) /\ op # j.op => Asks(jobs \ {j}, op)
  BY DEF Asks
<1>7. CASE ~ui.loading
  <2>1. ui' = ui /\ jobs' = jobs \ {j}
    BY <1>7 DEF HearPair, Over
  <2>2. ListsOwed(jobs', ui', db')
    BY <1>0, <1>1, <1>6, <1>7, <2>1 DEF ListsOwed
  <2>3. \A k \in jobs' : EvidenceJob(k, db)
    BY <2>1 DEF EvidenceOwed
  <2> QED BY <1>0, <1>5, <2>1, <2>2, <2>3 DEF EvidenceOwed
<1>8. CASE ui.loading /\ Nothing \in {got.units, got.files}
  <2>1. ui' = got /\ jobs' = jobs \ {j}
    BY <1>1, <1>2, <1>8 DEF HearPair, Over
  <2>2. ListsOwed(jobs', ui', db')
    <3>1. ui'.units = ClaimUnits \/ (ui'.units = Nothing /\ ui'.loading /\ Asks(jobs', "claimUnits"))
      BY <1>0, <1>1, <1>3, <1>6, <2>1 DEF ListsOwed
    <3>2. ui'.files = db.files \/ (ui'.files = Nothing /\ ui'.loading /\ Asks(jobs', "claimFiles"))
      BY <1>0, <1>1, <1>3, <1>6, <2>1 DEF ListsOwed
    <3>3. ui'.catalogue = Connected(db) \/ Asks(jobs', "catalogue")
      BY <1>0, <1>1, <1>3, <1>6, <2>1 DEF ListsOwed
    <3>4. ui'.gaps = db.gaps \/ Asks(jobs', "gaps")
      BY <1>0, <1>1, <1>3, <1>6, <2>1 DEF ListsOwed
    <3> QED BY <1>0, <3>1, <3>2, <3>3, <3>4 DEF ListsOwed
  <2>3. ~BothKnown(ui) /\ ~BothKnown(ui')
    <3>1. ui.units = Nothing \/ ui.files = Nothing
      BY <1>0, <1>1, <1>3, <1>4, <1>8
    <3> QED BY <1>8, <2>1, <3>1 DEF BothKnown
  <2>4. PoolOwes(Reading(jobs'), ui', db')
    BY <1>0, <1>3, <1>5, <2>1, <2>3 DEF PoolOwes
  <2>5. \A k \in jobs' : EvidenceJob(k, db)
    BY <2>1 DEF EvidenceOwed
  <2> QED BY <1>0, <2>2, <2>4, <2>5 DEF EvidenceOwed
<1>9. CASE ui.loading /\ Nothing \notin {got.units, got.files}
  <2>1. got.units = ClaimUnits /\ got.files = db.files
    BY <1>0, <1>3, <1>9 DEF ListsOwed
  <2>2. PICK rest : rest = SubSeq(ClaimUnits, Limit + 1, Len(ClaimUnits))
    OBVIOUS
  <2>3. PICK now : now = Min({Limit, Len(ClaimUnits)})
    OBVIOUS
  <2>4. ui' = [got EXCEPT !.queue = rest] /\ jobs' = (jobs \ {j}) \cup {Job("claims", ClaimUnits[i], 0) : i \in 1 .. now}
    BY <1>1, <1>2, <1>9, <2>1, <2>2, <2>3 DEF HearPair, Pooled
  <2>5. /\ \A k \in jobs' : k \in jobs \ {j} \/ (Fresh(k, "claims", Arg(k)) /\ k.live /\ Arg(k) \in Claimed)
        /\ IsTrail(rest) /\ ToSet(rest) \subseteq Claimed
        /\ Claimed \subseteq ToSet(rest) \cup Reading(jobs')
        /\ Reading(jobs') # {}
    <3>1. PICK js : js = jobs \ {j}
      OBVIOUS
    <3>2. PICK ks : ks = jobs'
      OBVIOUS
    <3>3. Pooling(js, ks, now, rest)
      BY <2>2, <2>3, <2>4, <3>1, <3>2 DEF Pooling
    <3>4. /\ \A k \in ks : k \in js \/ (Fresh(k, "claims", Arg(k)) /\ k.live /\ Arg(k) \in Claimed)
          /\ IsTrail(rest) /\ ToSet(rest) \subseteq Claimed
          /\ Claimed \subseteq ToSet(rest) \cup Reading(ks)
          /\ Reading(ks) # {}
      BY <3>3, PoolTakes
    <3> QED BY <3>1, <3>2, <3>4
  <2>6. /\ ui'.units = ClaimUnits /\ ui'.files = db.files /\ ui'.queue = rest /\ ui'.read = ui.read
        /\ ui'.catalogue = ui.catalogue /\ ui'.gaps = ui.gaps
    BY <1>0, <1>3, <2>1, <2>4
  <2>7. BothKnown(ui')
    BY <1>9, <2>1, <2>6 DEF BothKnown
  <2>8. PoolOwes(Reading(jobs'), ui', db')
    BY <1>0, <2>5, <2>6, <2>7 DEF PoolOwes
  <2>9. \A op \in {"catalogue", "gaps"} : Asks(jobs, op) => Asks(jobs', op)
    BY <1>1, <1>6, <2>4 DEF Asks
  <2>10. ListsOwed(jobs', ui', db')
    BY <1>0, <2>6, <2>9 DEF ListsOwed
  <2>11. \A k \in jobs' : EvidenceJob(k, db)
    BY <2>5 DEF EvidenceOwed, EvidenceJob, Fresh
  <2> QED BY <1>0, <2>8, <2>10, <2>11 DEF EvidenceOwed
<1> QED BY <1>7, <1>8, <1>9

LEMMA EvidenceReadsClaims ==
  ASSUME page = "evidence", PlaceInv, EvidenceOwed(jobs, ui, db), NEW j \in jobs, HearClaims(j)
  PROVE  EvidenceOwed(jobs', ui', db')
<1>0. /\ {"units", "files", "queue", "read", "claims", "loading", "error", "needsKey", "catalogue", "gaps"}
           \subseteq DOMAIN ui
      /\ db' = db /\ EvidenceJob(j, db)
      /\ ListsOwed(jobs, ui, db) /\ PoolOwes(Reading(jobs), ui, db)
      /\ db.rows = [x \in Claimed |-> db.rows[x]] /\ db.files # Nothing
  BY EvidenceFields DEF EvidenceOwed, HearClaims, Hears
<1>1. j.op = "claims" /\ j.code = "ok" /\ Arg(j) \in Claimed /\ Body(j) = db.rows[Arg(j)]
  BY <1>0 DEF HearClaims, Heard, EvidenceJob, Got, EvidenceBody
<1>2. Arg(j) \in Reading(jobs)
  BY <1>1, ReadingReplaced
<1>3. BothKnown(ui) /\ ui.units = ClaimUnits
  BY <1>0, <1>2 DEF PoolOwes, ListsOwed, BothKnown
<1>4. PICK read : read = [u \in DOMAIN ui.read \cup {Arg(j)} |-> IF u = Arg(j) THEN Body(j) ELSE ui.read[u]]
  OBVIOUS
<1>5. /\ DOMAIN read = DOMAIN ui.read \cup {Arg(j)} /\ DOMAIN read \subseteq Claimed
      /\ \A x \in DOMAIN read : read[x] = db.rows[x]
  BY <1>0, <1>1, <1>4 DEF PoolOwes
<1>6. DOMAIN read = Claimed => read = db.rows
  BY <1>0, <1>1, <1>4, <1>5
<1>7. \A op \in {"claimUnits", "claimFiles", "catalogue", "gaps"} : Asks(jobs, op) => Asks(jobs \ {j}, op)
  BY <1>1 DEF Asks
<1>8. CASE ui.queue # <<>>
  <2>1. ui' = [ui EXCEPT !.read = read, !.queue = Tail(@)] /\ GoesOn(j, "claims", Head(ui.queue))
    BY <1>1, <1>4, <1>8 DEF HearClaims
  <2>2. /\ ui'.units = ui.units /\ ui'.files = ui.files /\ ui'.queue = Tail(ui.queue) /\ ui'.read = read
        /\ ui'.catalogue = ui.catalogue /\ ui'.gaps = ui.gaps /\ ui'.loading = ui.loading
    BY <1>0, <2>1
  <2>3. PICK m : jobs' = (jobs \ {j}) \cup {m} /\ Fresh(m, "claims", Head(ui.queue)) /\ m.live /\ ~Got(m)
    BY <2>1, PatientNext
  <2>4. /\ IsTrail(Tail(ui.queue)) /\ Head(ui.queue) \in Claimed
        /\ ToSet(Tail(ui.queue)) \subseteq Claimed /\ ToSet(ui.queue) \subseteq ToSet(Tail(ui.queue)) \cup {Head(ui.queue)}
    BY <1>0, <1>8, HeadOfTrail DEF PoolOwes
  <2>5. m.op = "claims" /\ Arg(m) = Head(ui.queue) /\ m.stage = "sent"
    BY <2>3 DEF Fresh
  <2>6. Reading(jobs') = Reading(jobs \ {j}) \cup {Head(ui.queue)} /\ Reading(jobs) \ {Arg(j)} \subseteq Reading(jobs \ {j})
    <3>1. Reading((jobs \ {j}) \cup {m}) = Reading(jobs \ {j}) \cup {Arg(m)}
      BY <2>5, ReadingReplaced
    <3>2. Reading(jobs) \ {Arg(j)} \subseteq Reading(jobs \ {j})
      BY ReadingReplaced
    <3> QED BY <2>3, <2>5, <3>1, <3>2
  <2>7. PoolOwes(Reading(jobs'), ui', db')
    <3>1. BothKnown(ui')
      BY <1>3, <2>2 DEF BothKnown
    <3>2. Claimed \subseteq DOMAIN ui.read \cup ToSet(ui.queue) \cup Reading(jobs)
      BY <1>0, <1>3 DEF PoolOwes
    <3>3. Claimed \subseteq DOMAIN read \cup ToSet(Tail(ui.queue)) \cup Reading(jobs')
      BY <1>5, <2>4, <2>6, <3>2
    <3> QED BY <1>0, <1>5, <2>2, <2>4, <2>6, <3>1, <3>3 DEF PoolOwes
  <2>8. ListsOwed(jobs', ui', db')
    <3>1. \A op \in {"claimUnits", "claimFiles", "catalogue", "gaps"} : Asks(jobs, op) => Asks(jobs', op)
      BY <1>7, <2>3 DEF Asks
    <3> QED BY <1>0, <2>2, <3>1 DEF ListsOwed
  <2>9. EvidenceJob(m, db)
    BY <2>3, <2>4, <2>5 DEF EvidenceJob
  <2> QED BY <1>0, <2>3, <2>7, <2>8, <2>9 DEF EvidenceOwed
<1>9. CASE ui.queue = <<>>
  <2>1. /\ ui' = IF DOMAIN read = ToSet(ui.units) THEN [ui EXCEPT !.read = read, !.claims = read, !.loading = FALSE]
                 ELSE [ui EXCEPT !.read = read]
        /\ jobs' = jobs \ {j}
    BY <1>1, <1>4, <1>9 DEF HearClaims, Over
  <2>2. /\ ui'.units = ui.units /\ ui'.files = ui.files /\ ui'.queue = ui.queue /\ ui'.read = read
        /\ ui'.catalogue = ui.catalogue /\ ui'.gaps = ui.gaps
        /\ ui'.claims = IF DOMAIN read = Claimed THEN read ELSE ui.claims
    <3>1. ToSet(ui.units) = Claimed
      BY <1>3 DEF Claimed
    <3> QED BY <1>0, <2>1, <3>1
  <2>3. Reading(jobs) \ {Arg(j)} \subseteq Reading(jobs') /\ Reading(jobs') \subseteq Reading(jobs)
    BY <2>1, ReadingReplaced
  <2>4. ToSet(ui.queue) = {}
    BY <1>9 DEF ToSet
  <2>5. PoolOwes(Reading(jobs'), ui', db')
    <3>1. BothKnown(ui')
      BY <1>3, <2>2 DEF BothKnown
    <3>2. Claimed \subseteq DOMAIN read \cup Reading(jobs')
      BY <1>0, <1>3, <1>5, <2>3, <2>4 DEF PoolOwes
    <3>3. Reading(jobs') = {} => ui'.claims = db.rows
      BY <1>5, <1>6, <2>2, <3>2
    <3> QED BY <1>0, <1>5, <1>9, <2>2, <2>4, <3>1, <3>2, <3>3 DEF PoolOwes
  <2>6. ListsOwed(jobs', ui', db')
    BY <1>0, <1>3, <1>7, <2>1, <2>2 DEF ListsOwed, BothKnown
  <2>7. \A k \in jobs' : EvidenceJob(k, db)
    BY <2>1 DEF EvidenceOwed
  <2> QED BY <1>0, <2>5, <2>6, <2>7 DEF EvidenceOwed
<1> QED BY <1>8, <1>9

LEMMA EvidenceReadsLists ==
  ASSUME page = "evidence", PlaceInv, EvidenceOwed(jobs, ui, db), NEW j \in jobs, HearLists(j)
  PROVE  EvidenceOwed(jobs', ui', db')
<1>0. /\ {"units", "files", "queue", "read", "claims", "loading", "error", "needsKey", "catalogue", "gaps"}
           \subseteq DOMAIN ui
      /\ db' = db /\ EvidenceJob(j, db) /\ jobs' = jobs \ {j}
      /\ ListsOwed(jobs, ui, db) /\ PoolOwes(Reading(jobs), ui, db)
      /\ db.rows = [x \in Claimed |-> db.rows[x]] /\ db.files # Nothing
  BY EvidenceFields DEF EvidenceOwed, HearLists, Hears, Over
<1>1. j.op \in {"catalogue", "gaps"} /\ j.code = "ok" /\ EvidenceBody(j.op, Arg(j), Body(j), db)
  BY <1>0 DEF HearLists, Heard, EvidenceJob, Got
<1>2. /\ ui'.units = ui.units /\ ui'.files = ui.files /\ ui'.queue = ui.queue /\ ui'.read = ui.read
      /\ ui'.claims = ui.claims /\ ui'.loading = ui.loading
      /\ ui'.catalogue = IF j.op = "catalogue" THEN Connected(db) ELSE ui.catalogue
      /\ ui'.gaps = IF j.op = "gaps" THEN db.gaps ELSE ui.gaps
  <2>1. CASE j.op = "catalogue"
    BY <1>0, <1>1, <2>1 DEF HearLists, Heard, EvidenceBody
  <2>2. CASE j.op = "gaps"
    BY <1>0, <1>1, <2>2 DEF HearLists, Heard, EvidenceBody
  <2> QED BY <1>1, <2>1, <2>2
<1>3. Reading(jobs') = Reading(jobs)
  BY <1>0, <1>1, ReadingReplaced
<1>4. \A op \in {"claimUnits", "claimFiles", "catalogue", "gaps"} : Asks(jobs, op) /\ op # j.op => Asks(jobs', op)
  BY <1>0 DEF Asks
<1>5. ListsOwed(jobs', ui', db')
  BY <1>0, <1>1, <1>2, <1>4 DEF ListsOwed
<1>6. PoolOwes(Reading(jobs'), ui', db')
  BY <1>0, <1>2, <1>3 DEF PoolOwes, BothKnown
<1> QED BY <1>0, <1>5, <1>6 DEF EvidenceOwed

LEMMA EvidenceOwe ==
  ASSUME page = "evidence", PlaceInv, EvidenceAct, tidy', calm', EvidenceOwed(jobs, ui, db)
  PROVE  EvidenceOwed(jobs', ui', db')
<1>1. CASE EvidenceClick
  <2>1. jobs' = jobs /\ db' = db
    BY <1>1 DEF EvidenceClick, Looks
  <2>2. /\ ui'.units = ui.units /\ ui'.files = ui.files /\ ui'.queue = ui.queue /\ ui'.read = ui.read
        /\ ui'.claims = ui.claims /\ ui'.loading = ui.loading /\ ui'.catalogue = ui.catalogue /\ ui'.gaps = ui.gaps
    BY <1>1, EvidenceFields DEF EvidenceClick
  <2>3. ListsOwed(jobs', ui', db')
    BY <2>1, <2>2 DEF EvidenceOwed, ListsOwed
  <2>4. PoolOwes(Reading(jobs'), ui', db')
    BY <2>1, <2>2 DEF EvidenceOwed, PoolOwes, BothKnown
  <2> QED BY <2>1, <2>3, <2>4 DEF EvidenceOwed
<1>2. ~PointerElsewhere
  BY DEF PointerElsewhere
<1>3. \A j \in jobs : JobShape(j)
  BY EvidenceFields
<1> QED BY <1>1, <1>2, <1>3, EvidenceShownServes, EvidencePairs, EvidenceReadsClaims, EvidenceReadsLists
        DEF EvidenceAct, HearEvidence

-----------------------------------------------------------------------------
(* The interview.                                                          *)

LEMMA ScoutPatient ==
  ASSUME ScoutAct, tidy', calm', acts \in Nat, DOMAIN db = DOMAIN Session(<<>>, {}),
         \A j \in jobs : j.op \in ScoutOps
  PROVE  tidy /\ calm
<1> USE DEF Clicks, Looks, Hears
<1>1. CASE ScoutClick
  BY <1>1, PatientClick DEF ScoutClick, TypeName, CreateSession, LoadSession, GridClick, AddRow, LoadSamples,
     FillToHundred, EditCell, SaveCell, StartsBusy
<1>2. CASE PanelsClick
  BY <1>2, PatientClick DEF PanelsClick, OpenElevation, CloseElevation, Rebuild, Resolve, Extract, AddOne, AddAll,
     Attach, CreateAndAttach, Generate, PanelClick
<1>3. ~Withdraw
  BY DEF Withdraw
<1>4. ASSUME NEW j \in jobs, ServeCreate(j) \/ ServeGrid(j) \/ ServePanels(j)
      PROVE  tidy /\ calm
  <2>1. Serves /\ \E body, rows : Outcome(j, body, rows)
    BY <1>4, InterviewServes
  <2> QED BY <2>1 DEF Outcome, Answers, Serves
<1>5. ASSUME NEW j \in jobs, HearCreate(j) \/ HearSession(j) \/ HearGrid(j) \/ HearPanels(j)
      PROVE  tidy /\ calm
  BY <1>5 DEF HearCreate, HearSession, HearGrid, HearPanels, HearReplay, HearHeatmap, HearContradictions, HearExtract,
     HearChunk, HearPreview, HearReceipts, HearConsent, HearGenerate
<1> QED BY <1>1, <1>2, <1>3, <1>4, <1>5 DEF ScoutAct

\* The elevation shows what it showed.
SameView(q, p) ==
  /\ q.n = p.n /\ q.name = p.name
  /\ q.name \in {"replay", "contradictions"} => q.data = p.data

LEMMA ScoutSame ==
  ASSUME NEW js, NEW u, NEW v, NEW rows, NEW n, ScoutOwed(js, u, rows, n),
         v.session = u.session, SameView(v.panel, u.panel)
  PROVE  ScoutOwed(js, v, rows, n)
BY DEF ScoutOwed, SameView

\* Where nothing is under way, what is shown is stored.
LEMMA ScoutRests ==
  ASSUME NEW u, NEW rows, NEW n, ScoutOwed({}, u, rows, n)
  PROVE  /\ u.panel.n \in 0..n + 1 /\ u.session \in {Nothing, SessionOut(rows)}
         /\ u.panel.name = "replay" => u.panel.data = rows.timeline
         /\ u.panel.name = "contradictions" => u.panel.data = rows.contradictions
BY DEF ScoutOwed

LEMMA ScoutAsks ==
  ASSUME acts \in Nat, ScoutOwed(jobs, ui, db, acts), tidy', db' = db, NEW op, NEW arg, Starts({<<op, arg>>}),
         ui'.session = ui.session,
         SameView(ui'.panel, ui.panel) \/ (ui'.panel.n = acts + 1 /\ ui'.panel.name = op),
         op \in ReplayOps => ui'.panel.name = "replay",
         op \in ListOps => ui'.panel.name = "contradictions"
  PROVE  ScoutOwed(jobs', ui', db', acts')
<1>1. jobs = {} /\ acts' = acts + 1
  BY PatientStart
<1>2. PICK m : jobs' = {m} /\ m.op = op /\ m.n = acts + 1 /\ ~Got(m)
  BY PatientStart DEF Fresh
<1>3. /\ ui.panel.n \in 0..acts + 1 /\ ui.session \in {Nothing, SessionOut(db)}
      /\ ui.panel.name = "replay" => ui.panel.data = db.timeline
      /\ ui.panel.name = "contradictions" => ui.panel.data = db.contradictions
  BY <1>1, ScoutRests
<1>4. ui'.panel.n \in 0..(acts + 1) + 1 /\ m.n >= ui'.panel.n
  BY <1>2, <1>3 DEF SameView
<1>5. ui'.panel.name = "replay" => ui'.panel.data = db.timeline \/ m.op \in ReplayOps
  BY <1>2, <1>3 DEF SameView, ReplayOps
<1>6. ui'.panel.name = "contradictions" => ui'.panel.data = db.contradictions \/ m.op \in ListOps
  BY <1>2, <1>3 DEF SameView, ListOps
<1>7. ui'.session = Nothing \/ ui'.session = SessionOut(db)
  BY <1>3
<1> QED BY <1>1, <1>2, <1>4, <1>5, <1>6, <1>7 DEF ScoutOwed

\* A click that asks for nothing the elevations read.
LEMMA ScoutBusies ==
  ASSUME acts \in Nat, ScoutOwed(jobs, ui, db, acts), ScoutShape(ui, db), tidy', db' = db,
         NEW op \in GridOps \cup {"session"}, NEW arg, Starts({<<op, arg>>}),
         ui'.session = ui.session, ui'.panel = ui.panel
  PROVE  ScoutOwed(jobs', ui', db', acts')
<1>1. op \notin ReplayOps /\ op \notin ListOps
  BY DEF GridOps, ReplayOps, ListOps
<1>2. SameView(ui'.panel, ui.panel)
  BY DEF SameView
<1> QED BY <1>1, <1>2, ScoutAsks

LEMMA ScoutGridShown ==
  ASSUME acts \in Nat, ScoutOwed(jobs, ui, db, acts), ScoutShape(ui, db), tidy', GridClick \/ LoadSession
  PROVE  ScoutOwed(jobs', ui', db', acts')
<1>1. ASSUME NEW op \in GridOps, NEW arg, StartsBusy(op, arg), Clicks
      PROVE  ScoutOwed(jobs', ui', db', acts')
  <2>1. ui'.session = ui.session /\ ui'.panel = ui.panel /\ Starts({<<op, arg>>}) /\ db' = db
    BY <1>1, ScoutFields DEF StartsBusy, ScoutShape, Clicks
  <2> QED BY <2>1, ScoutBusies
<1>2. CASE AddRow
  <2>1. PICK op \in GridOps : op = "addRow"
    BY DEF GridOps
  <2>2. StartsBusy(op, HandRow) /\ Clicks
    BY <1>2, <2>1 DEF AddRow
  <2> QED BY <1>1, <2>2
<1>3. CASE LoadSamples
  <2>1. PICK op \in GridOps : op = "sampleRow"
    BY DEF GridOps
  <2>2. PICK some : StartsBusy(op, some) /\ Clicks
    BY <1>3, <2>1 DEF LoadSamples
  <2> QED BY <1>1, <2>2
<1>4. CASE FillToHundred
  <2>1. PICK r \in FillCells(Wanted(ui.session.units), ui.session.units) : StartsBusy(r[1], r[2]) /\ Clicks
    BY <1>4 DEF FillToHundred
  <2>2. r[1] \in {"fillCells", "fillRow"}
    BY <2>1 DEF FillCells, FillRows
  <2>3. PICK op \in GridOps : op = r[1]
    BY <2>2 DEF GridOps
  <2>4. StartsBusy(op, r[2])
    BY <2>1, <2>3
  <2> QED BY <1>1, <2>1, <2>4
<1>5. CASE EditCell
  <2>1. UNCHANGED <<db, jobs, acts>>
    BY <1>5 DEF EditCell, Looks
  <2>2. ui'.session = ui.session /\ ui'.panel = ui.panel
    BY <1>5, ScoutFields DEF EditCell, ScoutShape
  <2>3. SameView(ui'.panel, ui.panel)
    BY <2>2 DEF SameView
  <2> QED BY <2>1, <2>2, <2>3, ScoutSame
<1>6. CASE SaveCell
  <2>1. PICK op \in GridOps : op = "saveCell"
    BY DEF GridOps
  <2>2. PICK arg : Starts({<<op, arg>>}) /\ Clicks
    BY <1>6, <2>1 DEF SaveCell
  <2>3. ui'.session = ui.session /\ ui'.panel = ui.panel /\ db' = db
    BY <1>6, <2>2, ScoutFields DEF SaveCell, ScoutShape, Clicks
  <2> QED BY <2>2, <2>3, ScoutBusies
<1>7. CASE LoadSession
  <2>1. PICK op \in GridOps \cup {"session"} : op = "session"
    OBVIOUS
  <2>2. Starts({<<op, Nothing>>}) /\ db' = db
    BY <1>7, <2>1 DEF LoadSession, Clicks
  <2>3. ui'.session = ui.session /\ ui'.panel = ui.panel
    BY <1>7, ScoutFields DEF LoadSession, ScoutShape
  <2> QED BY <2>2, <2>3, ScoutBusies
<1> QED BY <1>2, <1>3, <1>4, <1>5, <1>6, <1>7 DEF GridClick

LEMMA ScoutPanelsShown ==
  ASSUME acts \in Nat, ScoutOwed(jobs, ui, db, acts), ScoutShape(ui, db), tidy', PanelsClick
  PROVE  ScoutOwed(jobs', ui', db', acts')
<1>1. ASSUME NEW name, NEW flag, NEW op, NEW arg, PanelClick(name, flag, op, arg),
             op \in ReplayOps => name = "replay", op \in ListOps => name = "contradictions"
      PROVE  ScoutOwed(jobs', ui', db', acts')
  <2>1. Starts({<<op, arg>>}) /\ db' = db /\ ui.panel.name = name
    BY <1>1 DEF PanelClick, Clicks
  <2>2. ui' = [ui EXCEPT !.panel.busy = @ \cup {flag}]
    BY <1>1 DEF PanelClick
  <2>3. ui'.session = ui.session /\ SameView(ui'.panel, ui.panel)
    BY <2>2, ScoutFields DEF ScoutShape, SameView
  <2>4. ui'.panel.name = name
    BY <2>1, <2>3 DEF SameView
  <2> QED BY <1>1, <2>1, <2>3, <2>4, ScoutAsks
<1>2. CASE OpenElevation
  <2>1. PICK e \in Elevations : /\ ui' = [ui EXCEPT !.panel = Panel(e, acts + 1)]
                                /\ IF e = "story" THEN jobs = {} /\ UNCHANGED <<jobs, tidy, acts>>
                                                  ELSE Starts({<<e, Nothing>>})
    BY <1>2 DEF OpenElevation
  <2>2. ui'.panel.name = e /\ ui'.panel.n = acts + 1 /\ ui'.session = ui.session /\ db' = db
    BY <1>2, <2>1, ScoutFields DEF OpenElevation, Clicks, ScoutShape, Panel
  <2>3. CASE e = "story"
    <3>1. jobs = {} /\ UNCHANGED <<jobs, acts, db>>
      BY <2>1, <2>2, <2>3
    <3>2. ui.session \in {Nothing, SessionOut(db)}
      BY <3>1, ScoutRests
    <3> QED BY <2>2, <2>3, <3>1, <3>2 DEF ScoutOwed
  <2>4. CASE e # "story"
    <3>1. e \in ReplayOps => e = "replay"
      BY DEF ReplayOps, Elevations
    <3>2. e \in ListOps => e = "contradictions"
      BY DEF ListOps, Elevations
    <3>3. Starts({<<e, Nothing>>})
      BY <2>1, <2>4
    <3> QED BY <2>2, <3>1, <3>2, <3>3, ScoutAsks
  <2> QED BY <2>3, <2>4
<1>3. CASE CloseElevation
  <2>1. jobs = {} /\ UNCHANGED <<jobs, acts, db>>
    BY <1>3 DEF CloseElevation, Looks
  <2>2. ui'.panel.name = "none" /\ ui'.panel.n = 0 /\ ui'.session = ui.session
    BY <1>3, ScoutFields DEF CloseElevation, ScoutShape, Closed, Panel
  <2>3. ui.session \in {Nothing, SessionOut(db)}
    BY <2>1, ScoutRests
  <2> QED BY <2>1, <2>2, <2>3 DEF ScoutOwed
<1>4. CASE Rebuild
  <2>1. PanelClick("replay", "rebuild", "rebuild", Nothing)
    BY <1>4 DEF Rebuild
  <2> QED BY <1>1, <2>1 DEF ListOps
<1>5. CASE Resolve
  <2>1. PICK c : /\ Starts({<<"resolve", c>>}) /\ db' = db /\ ui.panel.name = "contradictions"
                 /\ ui' = [ui EXCEPT !.panel.busy = {c}]
    BY <1>5 DEF Resolve, Clicks
  <2>2. ui'.session = ui.session /\ SameView(ui'.panel, ui.panel)
    BY <2>1, ScoutFields DEF ScoutShape, SameView
  <2>3. ui'.panel.name = "contradictions"
    BY <2>1, <2>2 DEF SameView
  <2>4. PICK op : op = "resolve"
    OBVIOUS
  <2>5. op \notin ReplayOps
    BY <2>4 DEF ReplayOps
  <2>6. Starts({<<op, c>>})
    BY <2>1, <2>4
  <2> QED BY <2>1, <2>2, <2>3, <2>5, <2>6, ScoutAsks
<1>6. CASE Attach \/ CreateAndAttach \/ Generate \/ AddAll
  <2>1. \E op \in {"attach", "createReceipt", "generate", "addAll"} : \E name, flag, arg : PanelClick(name, flag, op, arg)
    BY <1>6 DEF Attach, CreateAndAttach, Generate, AddAll
  <2>2. \A op \in {"attach", "createReceipt", "generate", "addAll"} : op \notin ReplayOps \cup ListOps
    BY DEF ReplayOps, ListOps
  <2> QED BY <1>1, <2>1, <2>2
<1>7. CASE Extract \/ AddOne
  <2>0. PICK op \in {"extract", "addOne"} : \E arg : Starts({<<op, arg>>}) /\ db' = db
    BY <1>7 DEF Extract, AddOne, Clicks
  <2>1. PICK arg : Starts({<<op, arg>>}) /\ db' = db
    BY <2>0
  <2>2. op \notin ReplayOps /\ op \notin ListOps
    BY DEF ReplayOps, ListOps
  <2>3. ui'.session = ui.session /\ SameView(ui'.panel, ui.panel)
    <3>1. CASE Extract
      <4>1. PICK p, q : p = ui.panel /\ q = [p EXCEPT !.busy = @ \cup {"extract"}, !.added = {}]
        OBVIOUS
      <4>2. SameView(q, p)
        BY <4>1, ScoutFields DEF ScoutShape, SameView
      <4>3. ui' = [ui EXCEPT !.panel.busy = @ \cup {"extract"}, !.panel.added = {}]
        BY <3>1 DEF Extract
      <4>4. ui'.panel = q /\ ui'.session = ui.session
        BY <4>1, <4>3, ScoutFields DEF ScoutShape
      <4> QED BY <4>1, <4>2, <4>4
    <3>2. CASE AddOne
      BY <3>2 DEF AddOne, SameView
    <3> QED BY <1>7, <3>1, <3>2
  <2> QED BY <2>1, <2>2, <2>3, ScoutAsks
<1> QED BY <1>2, <1>3, <1>4, <1>5, <1>6, <1>7 DEF PanelsClick

\* A request writes what its answer will show, and nothing else that is shown.
WrittenWell(op, body, rows) ==
  /\ ScoutBody(op, body, rows)
  /\ op \notin SessionOps => SessionOut(rows) = SessionOut(db)
  /\ op \notin ReplayOps => rows.timeline = db.timeline
  /\ op \notin ListOps => rows.contradictions = db.contradictions

LEMMA ScoutWrites ==
  ASSUME NEW j \in jobs, jobs = {j}, JobShape(j), j.stage = "sent", NEW body, NEW rows, Answers(j, "ok", body, rows),
         Serves, calm', ScoutOwed(jobs, ui, db, acts), WrittenWell(j.op, body, rows)
  PROVE  ScoutOwed(jobs', ui', db', acts')
<1>1. ui' = ui /\ acts' = acts
  BY DEF Serves
<1>2. OneAtMost(jobs)
  BY OneAndNone
<1>3. db' = rows
  BY <1>2, OnlyAnswer
<1>4. PICK m : jobs' = {m} /\ m.op = j.op /\ m.n = j.n /\ Got(m) /\ Body(m) = body
  BY <1>2, OnlyAnswer
<1>5. ~Got(j)
  BY DEF Got
<1>6. /\ j.n >= ui.panel.n /\ ui.panel.n \in 0..acts + 1
      /\ j.op \in ReplayOps => ui.panel.name = "replay"
      /\ j.op \in ListOps => ui.panel.name = "contradictions"
      /\ ui.session = Nothing \/ ui.session = SessionOut(db)
      /\ ui.panel.name = "replay" => ui.panel.data = db.timeline \/ j.op \in ReplayOps
      /\ ui.panel.name = "contradictions" => ui.panel.data = db.contradictions \/ j.op \in ListOps
  BY <1>5 DEF ScoutOwed
<1>7. ui.session = Nothing \/ ui.session = SessionOut(rows) \/ m.op \in SessionOps
  BY <1>4, <1>6 DEF WrittenWell
<1>8. ui.panel.name = "replay" => ui.panel.data = rows.timeline \/ m.op \in ReplayOps
  BY <1>4, <1>6 DEF WrittenWell
<1>9. ui.panel.name = "contradictions" => ui.panel.data = rows.contradictions \/ m.op \in ListOps
  BY <1>4, <1>6 DEF WrittenWell
<1>10. ScoutBody(m.op, Body(m), rows)
  BY <1>4 DEF WrittenWell
<1> QED BY <1>1, <1>3, <1>4, <1>6, <1>7, <1>8, <1>9, <1>10 DEF ScoutOwed

LEMMA GridWrites ==
  ASSUME NEW j, ServeGrid(j), DOMAIN db = DOMAIN Session(<<>>, {})
  PROVE  j.stage = "sent" /\ Serves /\ \E body, rows : Answers(j, "ok", body, rows) /\ WrittenWell(j.op, body, rows)
<1>1. PICK rows : /\ rows = GridRows(j) /\ Answers(j, "ok", SessionOut(rows), rows)
                  /\ j.op \in GridOps /\ j.stage = "sent" /\ Serves
  BY DEF ServeGrid
<1>2. rows.timeline = db.timeline /\ rows.contradictions = db.contradictions
  <2>1. CASE \E unit : rows = RowAdded(db, unit)
    BY <2>1, ScoutFields DEF RowAdded
  <2>2. CASE \E i, fs, words : rows = CellsSet(db, i, fs, words)
    BY <2>2, ScoutFields DEF CellsSet
  <2>3. \/ \E unit : rows = RowAdded(db, unit)
        \/ \E i, fs, words : rows = CellsSet(db, i, fs, words)
    BY <1>1 DEF GridRows, GridOps
  <2> QED BY <2>1, <2>2, <2>3
<1>3. j.op \in SessionOps /\ j.op \notin ReplayOps /\ j.op # "contradictions"
  BY <1>1 DEF SessionOps, GridOps, ReplayOps
<1>4. WrittenWell(j.op, SessionOut(rows), rows)
  BY <1>2, <1>3 DEF WrittenWell, ScoutBody
<1> QED BY <1>1, <1>4

LEMMA PanelWrites ==
  ASSUME NEW j, ServePanels(j), DOMAIN db = DOMAIN Session(<<>>, {})
  PROVE  j.stage = "sent" /\ Serves /\ \E body, rows : Answers(j, "ok", body, rows) /\ WrittenWell(j.op, body, rows)
<1>0. j.stage = "sent" /\ Serves
  BY DEF ServePanels, Sent
<1>1. CASE j.op \in StoryOps
  <2>1. PICK unit, rows : rows = RowAdded(db, unit) /\ Answers(j, "ok", SessionOut(rows), rows)
    BY <1>1 DEF ServePanels, Sent, StoryOps
  <2>2. rows.timeline = db.timeline /\ rows.contradictions = db.contradictions
    BY <2>1, ScoutFields DEF RowAdded
  <2>3. j.op \in SessionOps /\ j.op \notin ReplayOps /\ j.op # "contradictions"
    BY <1>1 DEF SessionOps, StoryOps, ReplayOps
  <2>4. WrittenWell(j.op, SessionOut(rows), rows)
    BY <2>2, <2>3 DEF WrittenWell, ScoutBody
  <2> QED BY <1>0, <2>1, <2>4
<1>2. CASE Sent(j, "session") \/ Sent(j, "attach")
  <2>1. PICK rows : /\ Answers(j, "ok", SessionOut(rows), rows)
                    /\ rows.timeline = db.timeline /\ rows.contradictions = db.contradictions
    BY <1>2, ScoutFields DEF ServePanels, Sent, StoryOps
  <2>2. j.op \in SessionOps /\ j.op \notin ReplayOps /\ j.op # "contradictions"
    BY <1>2 DEF SessionOps, ReplayOps, Sent
  <2>3. WrittenWell(j.op, SessionOut(rows), rows)
    BY <2>1, <2>2 DEF WrittenWell, ScoutBody
  <2> QED BY <1>0, <2>1, <2>3
<1>3. CASE Sent(j, "replay") \/ Sent(j, "rebuild")
  <2>1. PICK rows : /\ Answers(j, "ok", rows.timeline, rows)
                    /\ rows.units = db.units /\ rows.consent = db.consent /\ rows.contradictions = db.contradictions
    <3>1. Answers(j, "ok", BuiltOnce(db).timeline, BuiltOnce(db)) \/ Answers(j, "ok", Built(db).timeline, Built(db))
      BY <1>3 DEF ServePanels, Sent, StoryOps
    <3>2. PICK rows : rows \in {BuiltOnce(db), Built(db)} /\ Answers(j, "ok", rows.timeline, rows)
      BY <3>1
    <3>3. rows.units = db.units /\ rows.consent = db.consent /\ rows.contradictions = db.contradictions
      BY <3>2, ScoutFields DEF Built, BuiltOnce
    <3> QED BY <3>2, <3>3
  <2>2. j.op \notin SessionOps /\ j.op \in ReplayOps /\ j.op \notin ListOps
    BY <1>3 DEF SessionOps, GridOps, StoryOps, ReplayOps, ListOps, Sent
  <2>3. WrittenWell(j.op, rows.timeline, rows)
    BY <2>1, <2>2 DEF WrittenWell, ScoutBody, SessionOut, ListOps
  <2> QED BY <1>0, <2>1, <2>3
<1>4. CASE Sent(j, "contradictions") \/ Sent(j, "resolve")
  <2>1. PICK body, rows : /\ Answers(j, "ok", body, rows) /\ (j.op = "contradictions" => body = rows.contradictions)
                          /\ rows.units = db.units /\ rows.consent = db.consent /\ rows.timeline = db.timeline
    <3>1. CASE Sent(j, "contradictions")
      <4>1. PICK rows : rows = Detected(db) /\ Answers(j, "ok", rows.contradictions, rows)
        BY <3>1 DEF ServePanels, Sent, StoryOps
      <4>2. rows.units = db.units /\ rows.consent = db.consent /\ rows.timeline = db.timeline
        BY <4>1, DetectedKeeps
      <4> QED BY <4>1, <4>2
    <3>2. CASE Sent(j, "resolve")
      <4>1. PICK rows : rows = [db EXCEPT !.contradictions[Arg(j)] = "resolved"] /\ Answers(j, "ok", <<>>, rows)
        BY <3>2 DEF ServePanels, Sent, StoryOps
      <4>2. rows.units = db.units /\ rows.consent = db.consent /\ rows.timeline = db.timeline
        BY <4>1, ScoutFields
      <4> QED BY <3>2, <4>1, <4>2 DEF Sent
    <3> QED BY <1>4, <3>1, <3>2
  <2>2. j.op \notin SessionOps /\ j.op \notin ReplayOps /\ j.op \in ListOps
    BY <1>4 DEF SessionOps, GridOps, StoryOps, ReplayOps, ListOps, Sent
  <2>3. WrittenWell(j.op, body, rows)
    BY <2>1, <2>2 DEF WrittenWell, ScoutBody, SessionOut
  <2> QED BY <1>0, <2>1, <2>3
<1>5. CASE \E op \in {"heatmap", "extract", "preview", "receipts", "createReceipt", "generate"} : Sent(j, op)
  <2>1. /\ Generated(db, j.n).units = db.units /\ Generated(db, j.n).consent = db.consent
        /\ Generated(db, j.n).timeline = db.timeline /\ Generated(db, j.n).contradictions = db.contradictions
    BY ScoutFields DEF Generated
  <2>2. \E body, rows : /\ Answers(j, "ok", body, rows)
                        /\ rows.units = db.units /\ rows.consent = db.consent
                        /\ rows.timeline = db.timeline /\ rows.contradictions = db.contradictions
    <3>1. CASE Sent(j, "heatmap") \/ Sent(j, "extract") \/ Sent(j, "preview") \/ Sent(j, "receipts")
      BY <3>1 DEF ServePanels, Sent, StoryOps
    <3>2. CASE Sent(j, "createReceipt")
      BY <3>2, ScoutFields DEF ServePanels, Sent, StoryOps
    <3>3. CASE Sent(j, "generate")
      BY <2>1, <3>3 DEF ServePanels, Sent, StoryOps
    <3> QED BY <1>5, <3>1, <3>2, <3>3
  <2>3. PICK body, rows : /\ Answers(j, "ok", body, rows)
                          /\ rows.units = db.units /\ rows.consent = db.consent
                          /\ rows.timeline = db.timeline /\ rows.contradictions = db.contradictions
    BY <2>2
  <2>4. j.op \notin SessionOps /\ j.op \notin ReplayOps /\ j.op # "contradictions"
    BY <1>5 DEF SessionOps, GridOps, StoryOps, ReplayOps, Sent
  <2>5. WrittenWell(j.op, body, rows)
    BY <2>3, <2>4 DEF WrittenWell, ScoutBody, SessionOut
  <2> QED BY <1>0, <2>3, <2>5
<1> QED BY <1>1, <1>2, <1>3, <1>4, <1>5 DEF ServePanels

\* What the page takes from an answer: the session it is about, and what the
\* elevation that asked reads.
ShownFrom(j, js, p, q, session, next) ==
  /\ IF j.op \in SessionOps THEN next = Body(j) ELSE next = session
  /\ \/ js = {} /\ q = Closed
     \/ /\ q.n = p.n /\ q.name = p.name
        /\ IF j.op \in ReplayOps \cup {"contradictions"} THEN q.data = Body(j)
           ELSE q.name \in {"replay", "contradictions"} => q.data = p.data
        /\ IF j.op = "resolve" THEN \E m \in js : m.op = "contradictions"
           ELSE \A m \in js : m.op \notin ReplayOps \cup ListOps

LEMMA ScoutTakes ==
  ASSUME NEW j \in jobs, jobs = {j}, Got(j), Hears, acts \in Nat, ScoutOwed(jobs, ui, db, acts),
         Over(j) \/ \E op, arg : GoesOn(j, op, arg),
         ShownFrom(j, jobs', ui.panel, ui'.panel, ui.session, ui'.session)
  PROVE  ScoutOwed(jobs', ui', db', acts')
<1>1. db' = db /\ acts' = acts
  BY DEF Hears
<1>2. jobs' = {} \/ \E m : jobs' = {m} /\ m.n = j.n /\ ~Got(m)
  <2>1. CASE Over(j)
    BY <2>1 DEF Over
  <2>2. ASSUME NEW op, NEW arg, GoesOn(j, op, arg)
        PROVE  \E m : jobs' = {m} /\ m.n = j.n /\ ~Got(m)
    BY <2>2, OneAndNone, OnlyNext
  <2> QED BY <2>1, <2>2
<1>3. /\ ScoutBody(j.op, Body(j), db) /\ j.n >= ui.panel.n /\ ui.panel.n \in 0..acts + 1
      /\ j.op \in ReplayOps => ui.panel.name = "replay"
      /\ j.op \in ListOps => ui.panel.name = "contradictions"
      /\ j.op \in SessionOps \/ ui.session = Nothing \/ ui.session = SessionOut(db)
      /\ ui.panel.name = "replay" => ui.panel.data = db.timeline \/ j.op \in ReplayOps
      /\ ui.panel.name = "contradictions" => ui.panel.data = db.contradictions \/ j.op \in ListOps
  BY DEF ScoutOwed
<1>4. ui'.session = Nothing \/ ui'.session = SessionOut(db)
  BY <1>3 DEF ShownFrom, ScoutBody
<1>5. CASE jobs' = {} /\ ui'.panel = Closed
  <2>1. ui'.panel.n = 0 /\ ui'.panel.name = "none"
    BY <1>5 DEF Closed, Panel
  <2> QED BY <1>1, <1>4, <1>5, <2>1 DEF ScoutOwed
<1>6. CASE ~(jobs' = {} /\ ui'.panel = Closed)
  <2>1. /\ ui'.panel.n = ui.panel.n /\ ui'.panel.name = ui.panel.name
        /\ IF j.op \in ReplayOps \cup {"contradictions"} THEN ui'.panel.data = Body(j)
           ELSE ui'.panel.name \in {"replay", "contradictions"} => ui'.panel.data = ui.panel.data
        /\ IF j.op = "resolve" THEN \E m \in jobs' : m.op = "contradictions"
           ELSE \A m \in jobs' : m.op \notin ReplayOps \cup ListOps
    BY <1>6 DEF ShownFrom
  <2>2. ui'.panel.name = "replay" => ui'.panel.data = db.timeline
    BY <1>3, <2>1 DEF ScoutBody, ListOps
  <2>3. ui'.panel.name = "contradictions" => ui'.panel.data = db.contradictions \/ \E m \in jobs' : m.op \in ListOps
    BY <1>3, <2>1 DEF ScoutBody, ReplayOps, ListOps
  <2>4. ASSUME NEW m \in jobs'
        PROVE  /\ ~Got(m) /\ m.n >= ui'.panel.n
               /\ m.op \in ReplayOps => ui'.panel.name = "replay"
               /\ m.op \in ListOps => ui'.panel.name = "contradictions"
    <3>1. ~Got(m) /\ m.n = j.n
      BY <1>2
    <3>2. CASE j.op = "resolve"
      <4>1. m.op = "contradictions"
        BY <1>2, <2>1, <3>2
      <4> QED BY <1>3, <2>1, <3>1, <3>2, <4>1 DEF ReplayOps, ListOps
    <3>3. CASE j.op # "resolve"
      BY <1>3, <2>1, <3>1, <3>3
    <3> QED BY <3>2, <3>3
  <2> QED BY <1>1, <1>3, <1>4, <2>1, <2>2, <2>3, <2>4 DEF ScoutOwed
<1> QED BY <1>5, <1>6

LEMMA ElevationTakes ==
  ASSUME NEW j \in jobs, jobs = {j}, Got(j), ScoutShape(ui, db), acts \in Nat, ScoutOwed(jobs, ui, db, acts),
         HearReplay(j) \/ HearHeatmap(j) \/ HearContradictions(j) \/ HearExtract(j) \/ HearPreview(j)
           \/ HearReceipts(j) \/ HearGenerate(j)
  PROVE  ShownFrom(j, jobs', ui.panel, ui'.panel, ui.session, ui'.session)
<1>1. /\ j.code = "ok" /\ j.n >= ui.panel.n
      /\ j.op \in ReplayOps => InPanel(j, "replay")
      /\ j.op \in ListOps => InPanel(j, "contradictions")
  BY DEF Got, ScoutOwed, InPanel
<1>2. PICK p : p = ui.panel /\ DOMAIN p = DOMAIN Closed
  BY DEF ScoutShape
<1>3. PICK data : data = [p EXCEPT !.data = Body(j)]
  OBVIOUS
<1>4. DOMAIN data = DOMAIN Closed /\ data.name = p.name /\ data.n = p.n /\ data.data = Body(j) /\ Data(j) = data
  BY <1>1, <1>2, <1>3, ScoutFields DEF Data
\* Another elevation, or what it does not read.
<1>5. ASSUME NEW name, NEW panel, DOMAIN panel = DOMAIN Closed, panel.name = p.name, panel.n = p.n,
             ui' = Keyed(Panelled(ui, j, name, panel), j),
             j.op \in {"heatmap", "extract", "preview", "receipts", "generate"},
             name \in {"heatmap", "story", "preview"},
             Over(j) \/ GoesOn(j, "receipts", Nothing)
      PROVE  ShownFrom(j, jobs', p, ui'.panel, ui.session, ui'.session)
  <2>1. ui'.session = ui.session /\ ui'.panel = IF InPanel(j, name) THEN panel ELSE p
    BY <1>1, <1>2, <1>5, PanelKept
  <2>2. /\ ui'.panel.n = p.n /\ ui'.panel.name = p.name
        /\ ui'.panel.name \in {"replay", "contradictions"} => ui'.panel.data = p.data
    BY <1>2, <1>5, <2>1 DEF InPanel
  <2>3. j.op \notin SessionOps \cup ReplayOps \cup ListOps
    BY <1>5 DEF SessionOps, GridOps, StoryOps, ReplayOps, ListOps
  <2>4. \A m \in jobs' : m.op \notin ReplayOps \cup ListOps
    <3>1. CASE Over(j)
      BY <3>1 DEF Over
    <3>2. CASE GoesOn(j, "receipts", Nothing)
      <4>1. PICK op \in {"receipts"} : op = "receipts"
        OBVIOUS
      <4>2. PICK m : jobs' = {m} /\ m.op = op
        BY <3>2, <4>1, OneAndNone, OnlyNext DEF Fresh
      <4> QED BY <4>1, <4>2 DEF ReplayOps, ListOps
    <3> QED BY <1>5, <3>1, <3>2
  <2>5. j.op \notin SessionOps /\ j.op \notin ReplayOps \cup {"contradictions"} /\ j.op # "resolve"
    BY <2>3 DEF ListOps
  <2> QED BY <2>1, <2>2, <2>4, <2>5 DEF ShownFrom
\* What it reads.
<1>6. ASSUME NEW name, NEW panel, DOMAIN panel = DOMAIN Closed, panel.name = p.name, panel.n = p.n,
             panel.data = Body(j), ui' = Keyed(Panelled(ui, j, name, panel), j), InPanel(j, name),
             j.op \in ReplayOps \cup {"contradictions"}, Over(j)
      PROVE  ShownFrom(j, jobs', p, ui'.panel, ui.session, ui'.session)
  <2>1. ui'.session = ui.session /\ ui'.panel = panel
    BY <1>1, <1>2, <1>6, PanelKept
  <2>2. j.op \notin SessionOps /\ j.op # "resolve"
    BY <1>6 DEF SessionOps, GridOps, StoryOps, ReplayOps
  <2>3. jobs' = {}
    BY <1>6 DEF Over
  <2> QED BY <1>6, <2>1, <2>2, <2>3 DEF ShownFrom
<1>7. CASE HearReplay(j)
  <2>1. PICK panel : panel = [data EXCEPT !.busy = @ \ {j.op}]
    OBVIOUS
  <2>2. DOMAIN panel = DOMAIN Closed /\ panel.name = p.name /\ panel.n = p.n /\ panel.data = Body(j)
    BY <1>4, <2>1, ScoutFields
  <2>3. ui' = Keyed(Panelled(ui, j, "replay", panel), j) /\ Over(j) /\ j.op \in ReplayOps
    BY <1>4, <1>7, <2>1 DEF HearReplay, Heard, ReplayOps
  <2> QED BY <1>1, <1>2, <1>6, <2>2, <2>3
<1>8. CASE HearHeatmap(j)
  <2>1. ui' = Keyed(Panelled(ui, j, "heatmap", data), j) /\ Over(j) /\ j.op = "heatmap"
    BY <1>4, <1>8 DEF HearHeatmap, Heard
  <2> QED BY <1>2, <1>4, <1>5, <2>1
<1>9. CASE HearContradictions(j) /\ j.op = "resolve"
  <2>1. GoesOn(j, "contradictions", Nothing) /\ ui' = ui
    BY <1>1, <1>9 DEF HearContradictions, Heard
  <2>2. PICK op \in {"contradictions"} : op = "contradictions"
    OBVIOUS
  <2>3. PICK m : jobs' = {m} /\ m.op = op
    BY <2>1, <2>2, OneAndNone, OnlyNext DEF Fresh
  <2>4. j.op \notin SessionOps /\ j.op \notin ReplayOps \cup {"contradictions"}
    BY <1>9 DEF SessionOps, GridOps, StoryOps, ReplayOps
  <2> QED BY <1>2, <1>9, <2>1, <2>2, <2>3, <2>4 DEF ShownFrom
<1>10. CASE HearContradictions(j) /\ j.op # "resolve"
  <2>1. PICK panel : panel = [data EXCEPT !.busy = {}]
    OBVIOUS
  <2>2. DOMAIN panel = DOMAIN Closed /\ panel.name = p.name /\ panel.n = p.n /\ panel.data = Body(j)
    BY <1>4, <2>1, ScoutFields
  <2>3. ui' = Keyed(Panelled(ui, j, "contradictions", panel), j) /\ Over(j) /\ j.op = "contradictions"
    BY <1>4, <1>10, <2>1 DEF HearContradictions, Heard
  <2>4. InPanel(j, "contradictions")
    BY <1>1, <2>3 DEF ListOps
  <2> QED BY <1>2, <1>6, <2>2, <2>3, <2>4
<1>11. CASE HearExtract(j)
  <2>1. PICK kept, panel : kept = [p EXCEPT !.result = Body(j)] /\ panel = [kept EXCEPT !.busy = @ \ {"extract"}]
    OBVIOUS
  <2>2. DOMAIN panel = DOMAIN Closed /\ panel.name = p.name /\ panel.n = p.n
    BY <1>2, <2>1, ScoutFields
  <2>3. ui' = Keyed(Panelled(ui, j, "story", panel), j) /\ Over(j) /\ j.op = "extract"
    BY <1>1, <1>2, <1>11, <2>1 DEF HearExtract, Heard
  <2> QED BY <1>2, <1>5, <2>2, <2>3
<1>12. CASE HearPreview(j)
  <2>1. ui' = Keyed(Panelled(ui, j, "preview", data), j) /\ j.op = "preview" /\ (Over(j) \/ GoesOn(j, "receipts", Nothing))
    BY <1>4, <1>12 DEF HearPreview, Heard
  <2> QED BY <1>2, <1>4, <1>5, <2>1
<1>13. CASE HearReceipts(j)
  <2>1. PICK panel : panel = [p EXCEPT !.receipts = Body(j)]
    OBVIOUS
  <2>2. DOMAIN panel = DOMAIN Closed /\ panel.name = p.name /\ panel.n = p.n
    BY <1>2, <2>1, ScoutFields
  <2>3. ui' = Keyed(Panelled(ui, j, "preview", panel), j) /\ Over(j) /\ j.op = "receipts"
    BY <1>1, <1>2, <1>13, <2>1 DEF HearReceipts, Heard
  <2> QED BY <1>2, <1>5, <2>2, <2>3
<1>14. CASE HearGenerate(j)
  <2>1. PICK panel : panel = [p EXCEPT !.result = Body(j), !.busy = @ \ {"generate"}]
    OBVIOUS
  <2>2. DOMAIN panel = DOMAIN Closed /\ panel.name = p.name /\ panel.n = p.n
    BY <1>2, <2>1, ScoutFields
  <2>3. ui' = Keyed(Panelled(ui, j, "preview", panel), j) /\ Over(j) /\ j.op = "generate"
    BY <1>1, <1>2, <1>14, <2>1 DEF HearGenerate, Heard
  <2> QED BY <1>2, <1>5, <2>2, <2>3
<1> QED BY <1>2, <1>7, <1>8, <1>9, <1>10, <1>11, <1>12, <1>13, <1>14

LEMMA SessionTakes ==
  ASSUME NEW j \in jobs, jobs = {j}, Got(j), ScoutShape(ui, db), HearSession(j) \/ HearConsent(j) \/ HearChunk(j) \/ HearGrid(j)
  PROVE  /\ ShownFrom(j, jobs', ui.panel, ui'.panel, ui.session, ui'.session)
         /\ Over(j) \/ \E op, arg : GoesOn(j, op, arg)
<1>1. j.code = "ok"
  BY DEF Got
\* The elevation is as it was, or closed.
<1>2. ASSUME j.op \in SessionOps => ui'.session = Body(j), j.op \notin SessionOps => ui'.session = ui.session,
             SameView(ui'.panel, ui.panel),
             j.op \in {"createReceipt", "attach"} \cup GridOps \cup StoryOps,
             Over(j) \/ \E op \in {"attach"} \cup GridOps \cup StoryOps : \E arg : GoesOn(j, op, arg)
      PROVE  ShownFrom(j, jobs', ui.panel, ui'.panel, ui.session, ui'.session)
  <2>1. j.op \notin ReplayOps \cup {"contradictions"} /\ j.op # "resolve"
    BY <1>2 DEF ReplayOps, GridOps, StoryOps
  <2>2. \A m \in jobs' : m.op \notin ReplayOps \cup ListOps
    <3>1. CASE Over(j)
      BY <3>1 DEF Over
    <3>2. CASE \E op \in {"attach"} \cup GridOps \cup StoryOps : \E arg : GoesOn(j, op, arg)
      <4>0. PICK op \in {"attach"} \cup GridOps \cup StoryOps : \E arg : GoesOn(j, op, arg)
        BY <3>2
      <4>1. PICK arg : GoesOn(j, op, arg)
        BY <4>0
      <4>2. PICK m : jobs' = {m} /\ m.op = op
        BY <4>1, OneAndNone, OnlyNext DEF Fresh
      <4> QED BY <4>1, <4>2 DEF ReplayOps, ListOps, GridOps, StoryOps
    <3> QED BY <1>2, <3>1, <3>2
  <2> QED BY <1>2, <2>1, <2>2 DEF ShownFrom, SameView
<1>3. CASE HearSession(j)
  <2>1. PICK read : read = [ui EXCEPT !.loading = FALSE, !.since = acts, !.editing = Nothing, !.busy = FALSE,
                                      !.panel = Closed]
    OBVIOUS
  <2>2. DOMAIN read = DOMAIN ScoutUi /\ read.panel = Closed
    BY <2>1, ScoutFields DEF ScoutShape
  <2>3. ui' = [read EXCEPT !.session = Body(j), !.needsKey = FALSE] /\ Over(j) /\ j.op = "session"
    BY <1>1, <1>3, <2>1 DEF HearSession, Heard
  <2>4. ui'.panel = Closed /\ ui'.session = Body(j) /\ jobs' = {} /\ j.op \in SessionOps
    BY <2>2, <2>3, ScoutFields DEF Over, SessionOps
  <2> QED BY <2>3, <2>4 DEF ShownFrom
<1>4. CASE HearConsent(j)
  <2>1. CASE j.op = "createReceipt"
    <3>1. GoesOn(j, "attach", Body(j)) /\ ui' = ui
      BY <1>1, <1>4, <2>1 DEF HearConsent, Heard
    <3>2. j.op \notin SessionOps /\ SameView(ui'.panel, ui.panel)
      BY <2>1, <3>1 DEF SessionOps, GridOps, StoryOps, SameView
    <3>3. \E op \in {"attach"} \cup GridOps \cup StoryOps : \E arg : GoesOn(j, op, arg)
      BY <3>1
    <3> QED BY <1>2, <2>1, <3>1, <3>2, <3>3
  <2>2. CASE j.op = "attach"
    <3>1. PICK panel, free : /\ panel = [ui.panel EXCEPT !.busy = @ \ {"consent"}]
                             /\ free = Panelled(ui, j, "preview", panel)
      OBVIOUS
    <3>2. DOMAIN free = DOMAIN ScoutUi /\ SameView(free.panel, ui.panel)
      BY <3>1, ScoutFields DEF Panelled, ScoutShape, SameView
    <3>3. ui' = [free EXCEPT !.session = Body(j)] /\ Over(j)
      BY <1>1, <1>4, <2>2, <3>1 DEF HearConsent, Heard, Changed
    <3>4. ui'.session = Body(j) /\ SameView(ui'.panel, ui.panel) /\ j.op \in SessionOps
      BY <2>2, <3>2, <3>3, ScoutFields DEF SessionOps
    <3> QED BY <1>2, <2>2, <3>3, <3>4
  <2> QED BY <1>4, <2>1, <2>2 DEF HearConsent, Heard
<1>5. CASE HearChunk(j)
  <2>1. PICK added, state :
          /\ added = IF InPanel(j, "story") THEN [ui EXCEPT !.panel.added = Marked(j)] ELSE ui
          /\ state = [added EXCEPT !.session = Body(j)]
    OBVIOUS
  <2>2. DOMAIN added = DOMAIN ScoutUi /\ DOMAIN added.panel = DOMAIN Closed /\ SameView(added.panel, ui.panel)
    BY <2>1, ScoutFields DEF ScoutShape, SameView
  <2>3. DOMAIN state = DOMAIN ScoutUi /\ state.panel = added.panel /\ state.session = Body(j)
    BY <2>1, <2>2, ScoutFields
  <2>4. /\ ui' = state \/ ui' = [state EXCEPT !.panel.busy = @ \ {"addAll"}]
        /\ Over(j) \/ \E arg : GoesOn(j, j.op, arg)
        /\ j.op \in StoryOps
    BY <1>1, <1>5, <2>1 DEF HearChunk
  <2>5. ui'.session = Body(j) /\ SameView(ui'.panel, ui.panel)
    BY <2>2, <2>3, <2>4, ScoutFields DEF SameView
  <2>6. j.op \in SessionOps
    BY <2>4 DEF SessionOps
  <2> QED BY <1>2, <2>4, <2>5, <2>6
<1>6. CASE HearGrid(j)
  <2>1. PICK changed, saved :
          /\ changed = [ui EXCEPT !.session = Body(j)]
          /\ saved = IF j.op = "saveCell" /\ OfGrid(j) THEN [changed EXCEPT !.editing = Nothing] ELSE changed
    OBVIOUS
  <2>2. DOMAIN changed = DOMAIN ScoutUi /\ changed.panel = ui.panel /\ changed.session = Body(j)
    BY <2>1, ScoutFields DEF ScoutShape
  <2>3. DOMAIN saved = DOMAIN ScoutUi /\ saved.panel = ui.panel /\ saved.session = Body(j)
    BY <2>1, <2>2, ScoutFields
  <2>4. changed = Changed(ui, j)
    BY <1>1, <2>1 DEF Changed
  <2>5. /\ ui' = saved \/ ui' = GridFree(saved, j)
        /\ Over(j) \/ \E r \in GridRest(j) : GoesOn(j, r[1], r[2])
        /\ j.op \in GridOps
    BY <1>6, <2>1, <2>4 DEF HearGrid
  <2>6. ui'.session = Body(j) /\ ui'.panel = ui.panel
    BY <2>3, <2>5, ScoutFields DEF GridFree
  <2>7. SameView(ui'.panel, ui.panel) /\ j.op \in SessionOps
    BY <2>5, <2>6 DEF SameView, SessionOps
  <2>8. \A r \in GridRest(j) : r[1] \in GridOps
    BY DEF GridRest, FillCells, FillRows, GridOps
  <2>9. Over(j) \/ \E op \in {"attach"} \cup GridOps \cup StoryOps : \E arg : GoesOn(j, op, arg)
    BY <2>5, <2>8
  <2> QED BY <1>2, <2>5, <2>6, <2>7, <2>9
<1> QED BY <1>3, <1>4, <1>5, <1>6

LEMMA ScoutOwe ==
  ASSUME page = "scout", ScoutAct, tidy', calm', tidy, calm, acts \in Nat, Alive(jobs, ScoutOps),
         ScoutShape(ui, db), Waits, ScoutOwed(jobs, ui, db, acts)
  PROVE  ScoutOwed(jobs', ui', db', acts')
<1>0. /\ DOMAIN db = DOMAIN Session(<<>>, {})
      /\ \A j \in jobs : JobShape(j) /\ j.op \in ScoutOps
      /\ Waited(jobs, ui.panel, ui.session, db.units, acts)
  BY DEF ScoutShape, Alive, Placed, Waits
<1>1. \A j \in jobs : jobs = {j} /\ (j.stage = "answered" => Got(j))
  BY <1>0, OneJob DEF Waited, ScoutJob
<1>2. CASE ScoutClick
  <2>1. GridClick \/ LoadSession
    BY <1>2 DEF ScoutClick, TypeName, CreateSession
  <2> QED BY <2>1, ScoutGridShown
<1>3. CASE PanelsClick
  BY <1>3, ScoutPanelsShown
<1>4. ~Withdraw
  BY DEF Withdraw
<1>5. ASSUME NEW j \in jobs, ServeCreate(j) \/ ServeGrid(j) \/ ServePanels(j)
      PROVE  ScoutOwed(jobs', ui', db', acts')
  <2>1. ~ServeCreate(j)
    BY <1>0, OtherNames DEF ServeCreate, Sent
  <2>2. j.stage = "sent" /\ Serves /\ \E body, rows : Answers(j, "ok", body, rows) /\ WrittenWell(j.op, body, rows)
    BY <1>0, <1>5, <2>1, GridWrites, PanelWrites
  <2>3. PICK body, rows : Answers(j, "ok", body, rows) /\ WrittenWell(j.op, body, rows)
    BY <2>2
  <2> QED BY <1>0, <1>1, <2>2, <2>3, ScoutWrites
<1>6. ASSUME NEW j \in jobs, HearSession(j) \/ HearGrid(j) \/ HearPanels(j)
      PROVE  ScoutOwed(jobs', ui', db', acts')
  <2>1. Hears /\ j.stage = "answered"
    BY <1>6 DEF HearSession, HearGrid, HearPanels, HearReplay, HearHeatmap, HearContradictions, HearExtract,
       HearChunk, HearPreview, HearReceipts, HearConsent, HearGenerate, Heard
  <2>2. Got(j) /\ jobs = {j}
    BY <1>1, <2>1
  <2>3. CASE HearSession(j) \/ HearConsent(j) \/ HearChunk(j) \/ HearGrid(j)
    BY <2>1, <2>2, <2>3, SessionTakes, ScoutTakes
  <2>4. CASE HearReplay(j) \/ HearHeatmap(j) \/ HearContradictions(j) \/ HearExtract(j) \/ HearPreview(j)
               \/ HearReceipts(j) \/ HearGenerate(j)
    <3>1. Over(j) \/ \E op, arg : GoesOn(j, op, arg)
      BY <2>4 DEF HearReplay, HearHeatmap, HearContradictions, HearExtract, HearPreview, HearReceipts, HearGenerate
    <3> QED BY <2>1, <2>2, <2>4, <3>1, ElevationTakes, ScoutTakes
  <2> QED BY <1>6, <2>3, <2>4 DEF HearPanels
<1>7. \A j \in jobs : ~HearCreate(j)
  BY <1>0, OtherNames DEF HearCreate, Heard
<1> QED BY <1>2, <1>3, <1>4, <1>5, <1>6, <1>7 DEF ScoutAct

LEMMA ScoutOpens ==
  ASSUME NEW js, NEW rows, NEW n \in Nat, \A j \in js : j.op = "session" /\ j.n \in Nat /\ ~Got(j)
  PROVE  ScoutOwed(js, ScoutUi, rows, n)
<1>1. ScoutUi.panel.name = "none" /\ ScoutUi.panel.n = 0 /\ ScoutUi.session = Nothing
  BY DEF ScoutUi, Closed, Panel
<1>2. \A j \in js : j.op \notin ReplayOps /\ j.op \notin ListOps
  BY DEF ReplayOps, ListOps
<1> QED BY <1>1, <1>2 DEF ScoutOwed

-----------------------------------------------------------------------------
(* Where a page begins, and where it goes on.                              *)

LEMMA MountedAlive ==
  ASSUME NEW p, NEW rows, NEW state, NEW ops, Mounted(p, rows, state, ops)
  PROVE  /\ page = p /\ db = rows /\ ui = state /\ acts = 0
         /\ \A j \in jobs : j.op \in ops /\ j.live /\ j.stage = "sent" /\ j.n = 0 /\ ~Got(j)
         /\ \A op \in ops : Asks(jobs, op)
         /\ \A j, k \in jobs : j.op = k.op => j = k
<1>1. jobs = {Job(op, Nothing, 0) : op \in ops}
  BY DEF Mounted
<1>2. ASSUME NEW op \in ops, NEW m, m = Job(op, Nothing, 0)
      PROVE  m.op = op /\ m.live /\ m.stage = "sent" /\ m.n = 0 /\ ~Got(m)
  BY <1>2 DEF Job, Got
<1>3. \A op \in ops : Asks(jobs, op)
  BY <1>1, <1>2 DEF Asks
<1>4. ASSUME NEW j \in jobs, NEW k \in jobs, j.op = k.op
      PROVE  j = k
  <2>1. PICK x \in ops : j = Job(x, Nothing, 0)
    BY <1>1
  <2>2. PICK y \in ops : k = Job(y, Nothing, 0)
    BY <1>1
  <2>3. x = y
    BY <1>2, <1>4, <2>1, <2>2
  <2> QED BY <2>1, <2>2, <2>3
<1> QED BY <1>1, <1>2, <1>3, <1>4 DEF Mounted

LEMMA MountedOne ==
  ASSUME NEW p, NEW rows, NEW state, NEW op, Mounted(p, rows, state, {op})
  PROVE  /\ page = p /\ db = rows /\ ui = state
         /\ OneAtMost(jobs) /\ jobs # {}
         /\ \A j \in jobs : j.op = op /\ j.live /\ j.stage = "sent" /\ ~Got(j)
<1>1. PICK ops : ops = {op}
  OBVIOUS
<1>2. Mounted(p, rows, state, ops)
  BY <1>1
<1>3. /\ page = p /\ db = rows /\ ui = state
      /\ \A j \in jobs : j.op \in ops /\ j.live /\ j.stage = "sent" /\ j.n = 0 /\ ~Got(j)
      /\ \A x \in ops : Asks(jobs, x)
      /\ \A j, k \in jobs : j.op = k.op => j = k
  BY <1>2, MountedAlive
<1>4. \A j \in jobs : j.op = op
  BY <1>1, <1>3
<1>5. PICK j \in jobs : TRUE
  BY <1>1, <1>3 DEF Asks
<1>6. jobs = {j}
  BY <1>3, <1>4, <1>5
<1> QED BY <1>3, <1>4, <1>6, OneAndNone

LEMMA EvidenceShownBegins ==
  ASSUME Mounted("evidence", Evidence(Sheets \cup Pdfs, [u \in ToSet(ClaimUnits) |-> NoPointers]), EvidenceUi, EvidenceReads)
  PROVE  page = "evidence" /\ EvidenceOwed(jobs, ui, db)
<1>1. PICK rows : rows = Evidence(Sheets \cup Pdfs, [u \in ToSet(ClaimUnits) |-> NoPointers])
  OBVIOUS
<1>2. PICK state : state = EvidenceUi
  OBVIOUS
<1>3. Mounted("evidence", rows, state, EvidenceReads)
  BY <1>1, <1>2
<1>4. /\ page = "evidence" /\ db = rows /\ ui = state
      /\ \A j \in jobs : j.op \in EvidenceReads /\ j.live /\ j.stage = "sent" /\ ~Got(j)
      /\ \A op \in EvidenceReads : Asks(jobs, op)
  BY <1>3, MountedAlive
<1>5. db.rows = [u \in Claimed |-> NoPointers] /\ db.files = Sheets \cup Pdfs /\ db.files # Nothing
  BY <1>1, <1>4, EvidenceAssumption DEF Evidence, Claimed
<1>6. db.rows = [x \in Claimed |-> db.rows[x]]
  BY <1>5
<1>7. \A j \in jobs : EvidenceJob(j, db)
  BY <1>4 DEF EvidenceJob, EvidenceReads
<1>8. /\ ui.units = Nothing /\ ui.files = Nothing /\ ui.loading /\ ui.queue = <<>> /\ ui.read = <<>>
  BY <1>2, <1>4 DEF EvidenceUi
<1>9. ListsOwed(jobs, ui, db)
  BY <1>4, <1>8 DEF ListsOwed, EvidenceReads
<1>10. PoolOwes(Reading(jobs), ui, db)
  <2>1. Reading(jobs) = {}
    BY <1>4 DEF Reading, EvidenceReads
  <2>2. ~BothKnown(ui)
    BY <1>8 DEF BothKnown
  <2>3. IsTrail(<<>>) /\ ToSet(<<>>) = {} /\ DOMAIN <<>> = {}
    <3>1. <<>> \in Seq({})
      OBVIOUS
    <3>2. ToSet(<<>>) = {}
      BY DEF ToSet
    <3> QED BY <3>1, <3>2 DEF IsTrail
  <2> QED BY <1>8, <2>1, <2>2, <2>3 DEF PoolOwes
<1> QED BY <1>4, <1>5, <1>6, <1>7, <1>9, <1>10 DEF EvidenceOwed

LEMMA ChroShownBegins ==
  ASSUME NEW rows, NEW look, NEW sample, NEW pack, NEW ops,
         look \/ ops = {"seat", "ws"}, ops \in SUBSET {"seat", "ws"},
         Mounted("chro", rows, ChroUi(look, sample, pack), ops)
  PROVE  page = "chro" /\ ChroOwed(jobs, ui, db)
<1>1. PICK state : state = ChroUi(look, sample, pack)
  OBVIOUS
<1>2. Mounted("chro", rows, state, ops)
  BY <1>1
<1>3. /\ page = "chro" /\ ui = state
      /\ \A j \in jobs : j.op \in ops /\ j.live /\ j.stage = "sent" /\ ~Got(j)
      /\ \A op \in ops : Asks(jobs, op)
      /\ \A j, k \in jobs : j.op = k.op => j = k
  BY <1>2, MountedAlive
<1>4. \A j \in jobs : j.op \in {"seat", "ws"}
  BY <1>3
<1>5. ChroJobs(jobs, db)
  <2>1. \A j \in jobs : ChroOwedJob(j, db)
    BY <1>3 DEF ChroOwedJob
  <2>2. \A j, k \in jobs : j.op \notin SeatOps /\ k.op \notin SeatOps => j = k
    BY <1>3, <1>4 DEF SeatOps
  <2> QED BY <2>1, <2>2 DEF ChroJobs
<1>6. ui.look = look
  BY <1>1, <1>3 DEF ChroUi
<1>7. look \/ \E j \in jobs : LineTold(j)
  BY <1>3 DEF Asks, LineTold
<1> QED BY <1>3, <1>5, <1>6, <1>7 DEF ChroOwed

LEMMA SitShownBegins ==
  ASSUME NEW rows, Mounted("sitClose", rows, SitUi, {"sitUnits"})
  PROVE  page = "sitClose" /\ SitOwed(jobs, ui, db)
<1>1. PICK state : state = SitUi
  OBVIOUS
<1>2. /\ page = "sitClose" /\ ui = state /\ OneAtMost(jobs)
      /\ \A j \in jobs : j.op = "sitUnits" /\ j.live /\ j.stage = "sent" /\ ~Got(j)
  BY <1>1, MountedOne
<1>3. ui.unit = FALSE
  BY <1>1, <1>2 DEF SitUi
<1>4. \A j \in jobs : SitOwedJob(j, ui, db)
  BY <1>2 DEF SitOwedJob
<1> QED BY <1>2, <1>3, <1>4 DEF SitOwed

LEMMA ScopeShownBegins ==
  ASSUME Mounted("scope", EmptyBoard, GridUi, {"board"})
  PROVE  page = "scope" /\ ScopeOwed(jobs, ui, db)
<1>1. PICK state : state = GridUi
  OBVIOUS
<1>2. PICK rows : rows = EmptyBoard
  OBVIOUS
<1>3. /\ page = "scope" /\ ui = state /\ db = rows /\ OneAtMost(jobs) /\ jobs # {}
      /\ \A j \in jobs : j.op = "board" /\ j.live /\ j.stage = "sent" /\ ~Got(j)
  BY <1>1, <1>2, MountedOne
<1>4. /\ DOMAIN ui = DOMAIN GridUi /\ DOMAIN ui.draft = Subs /\ ui.focus = Nothing
      /\ ui.fn = "hr" /\ ui.data = Nothing
  BY <1>1, <1>3 DEF GridUi
<1>5. BoardShape(db)
  BY <1>2, <1>3 DEF EmptyBoard, BoardShape
<1>6. \A j \in jobs : ScopeJob(j, ui, db)
  BY <1>3, <1>4 DEF ScopeJob
<1> QED BY <1>3, <1>4, <1>5, <1>6 DEF ScopeOwed

LEMMA SpecShownBegins ==
  ASSUME NEW rows, Mounted("spec", rows, CheckUi, {"specUnits"})
  PROVE  page = "spec" /\ SpecOwed(jobs, ui, db)
<1>1. PICK state : state = CheckUi
  OBVIOUS
<1>2. /\ page = "spec" /\ ui = state /\ OneAtMost(jobs)
      /\ \A j \in jobs : j.op = "specUnits" /\ j.live /\ j.stage = "sent" /\ ~Got(j)
  BY <1>1, MountedOne
<1>3. DOMAIN ui = DOMAIN CheckUi /\ ui.checks = Nothing
  BY <1>1, <1>2 DEF CheckUi
<1> QED BY <1>2, <1>3 DEF SpecOwed

LEMMA VersionsShownBegins ==
  ASSUME NEW v \in VersionRows, Mounted("versions", v, VersionsUi, {"versions"})
  PROVE  page = "versions" /\ VersionsOwed(jobs, ui, db)
<1>1. PICK state : state = VersionsUi
  OBVIOUS
<1>2. /\ page = "versions" /\ ui = state /\ db = v /\ OneAtMost(jobs) /\ jobs # {}
      /\ \A j \in jobs : j.op = "versions" /\ j.live /\ j.stage = "sent" /\ ~Got(j)
  BY <1>1, MountedOne
<1>3. DOMAIN v = {"passed", "ratified", "approved"}
  BY DEF VersionRows, Versions
<1>4. DOMAIN ui = DOMAIN VersionsUi
  BY <1>1, <1>2
<1> QED BY <1>2, <1>3, <1>4 DEF VersionsOwed

LEMMA ScoutShownBegins ==
  ASSUME NEW units, Mounted("scout", Session(units, {1}), ScoutUi, {"session"})
  PROVE  page = "scout" /\ ScoutOwed(jobs, ui, db, acts)
<1>1. PICK rows : rows = Session(units, {1})
  OBVIOUS
<1>2. PICK ops : ops = {"session"}
  OBVIOUS
<1>3. Mounted("scout", rows, ScoutUi, ops)
  BY <1>1, <1>2
<1>4. /\ page = "scout" /\ ui = ScoutUi /\ acts = 0
      /\ \A j \in jobs : j.op \in ops /\ j.n = 0 /\ ~Got(j)
  BY <1>3, MountedAlive
<1>5. acts \in Nat /\ \A j \in jobs : j.op = "session" /\ j.n \in Nat /\ ~Got(j)
  BY <1>2, <1>4
<1> QED BY <1>4, <1>5, ScoutOpens

LEMMA ShownBegins == Init => ShownInv
<1> SUFFICES ASSUME Init PROVE ShownInv
  OBVIOUS
<1>1. CASE \E v \in VersionRows : Mounted("versions", v, VersionsUi, {"versions"})
  BY <1>1, VersionsShownBegins DEF ShownInv
<1>2. CASE Mounted("scope", EmptyBoard, GridUi, {"board"})
  BY <1>2, ScopeShownBegins DEF ShownInv
<1>3. CASE Mounted("spec", <<>>, CheckUi, {"specUnits"})
  <2>1. PICK rows : rows = <<>>
    OBVIOUS
  <2>2. Mounted("spec", rows, CheckUi, {"specUnits"})
    BY <1>3, <2>1
  <2> QED BY <2>2, SpecShownBegins DEF ShownInv
<1>4. CASE page \in {"newSession", "deny", "docCheck"}
  BY <1>4 DEF ShownInv
<1>5. CASE \E unit \in BOOLEAN, pointers \in {{}, {SitRows[1]}}, rows \in DeskRows :
             Mounted("sitClose", Sitting(unit, pointers, rows), SitUi, {"sitUnits"})
  <2>1. PICK rows : Mounted("sitClose", rows, SitUi, {"sitUnits"})
    BY <1>5
  <2> QED BY <2>1, SitShownBegins DEF ShownInv
<1>6. ASSUME NEW rows, NEW look, NEW sample, NEW pack, NEW ops,
             look \/ ops = {"seat", "ws"}, ops \in SUBSET {"seat", "ws"},
             Mounted("chro", rows, ChroUi(look, sample, pack), ops)
      PROVE  ShownInv
  BY <1>6, ChroShownBegins DEF ShownInv
<1>7. CASE \E s \in Sentences : Mounted("chro", SaidBefore(s), ChroUi(FALSE, TRUE, Checks), {"seat", "ws"})
  <2>1. PICK rows, ops, look, sample : /\ ops = {"seat", "ws"} /\ look = FALSE /\ sample = TRUE
                                       /\ Mounted("chro", rows, ChroUi(look, sample, Checks), ops)
    BY <1>7
  <2>2. ops \in SUBSET {"seat", "ws"}
    BY <2>1
  <2> QED BY <1>6, <2>1, <2>2
<1>8. CASE Mounted("chro", NewSitting, ChroUi(FALSE, FALSE, Checks), {"seat", "ws"})
  <2>1. PICK rows, ops, look : /\ ops = {"seat", "ws"} /\ look = FALSE
                               /\ Mounted("chro", rows, ChroUi(look, look, Checks), ops)
    BY <1>8
  <2>2. ops \in SUBSET {"seat", "ws"}
    BY <2>1
  <2> QED BY <1>6, <2>1, <2>2
<1>9. CASE \E sample \in BOOLEAN : Mounted("chro", NewSitting, ChroUi(TRUE, sample, {}), {})
  <2>1. PICK rows, none, look, sample : /\ none = {} /\ look = TRUE
                                        /\ Mounted("chro", rows, ChroUi(look, sample, none), none)
    BY <1>9
  <2>2. none \in SUBSET {"seat", "ws"}
    BY <2>1
  <2> QED BY <1>6, <2>1, <2>2
<1>10. CASE \E units \in SeedUnits : Mounted("scout", Session(units, {1}), ScoutUi, {"session"})
  BY <1>10, ScoutShownBegins DEF ShownInv
<1>11. CASE Mounted("evidence", Evidence(Sheets \cup Pdfs, [u \in ToSet(ClaimUnits) |-> NoPointers]), EvidenceUi, EvidenceReads)
  BY <1>11, EvidenceShownBegins DEF ShownInv
<1>12. CASE \/ Mounted("newSession", Nothing, NewSessionUi(""), {})
            \/ \E units \in {<<>>, <<FALSE>>, <<FALSE, TRUE>>} : Mounted("deny", Desk(units), DenyUi, {})
            \/ Mounted("docCheck", Desk(<<>>), HelperUi, {})
  <2>1. page \in {"newSession", "deny", "docCheck"}
    BY <1>12 DEF Mounted
  <2> QED BY <1>4, <2>1
<1> QED BY <1>1, <1>2, <1>3, <1>5, <1>7, <1>8, <1>9, <1>10, <1>11, <1>12 DEF Init

\* What was abandoned is heard by nobody: only the scope page leaves something behind.
LEMMA ShownAside ==
  ASSUME Aside, OtherPlaceInv, ShownInv
  PROVE  ShownInv'
<1>1. CASE UNCHANGED vars
  BY <1>1 DEF vars, ShownInv
<1>2. ASSUME NEW j \in jobs, HearAbandoned(j)
      PROVE  ShownInv'
  <2>1. UNCHANGED <<page, db, ui, tidy, calm, acts>> /\ ~j.live
    BY <1>2 DEF HearAbandoned
  <2>2. CASE ~(tidy /\ calm)
    BY <2>1, <2>2 DEF ShownInv
  <2>3. CASE tidy /\ calm /\ page = "scope"
    <3>1. ScopeOwed(jobs', ui', db')
      BY <1>2, <2>3, ScopeHears DEF ShownInv
    <3> QED BY <2>1, <2>3, <3>1 DEF ShownInv
  <2>4. CASE tidy /\ calm /\ page \in {"versions", "genome", "spec", "scout", "sitClose", "chro", "evidence"}
    BY <2>1, <2>4 DEF ShownInv, VersionsOwed, GenomeOwed, GenomeJob, SpecOwed, SitOwed, SitOwedJob, ChroOwed, ChroJobs,
       ChroOwedJob, EvidenceOwed, EvidenceJob, OtherPlaceInv, Alive
  <2>5. CASE page \in {"newSession", "deny", "docCheck"}
    BY <2>1, <2>5 DEF ShownInv
  <2> QED BY <2>2, <2>3, <2>4, <2>5 DEF OtherPlaceInv, Desks, OtherPages
<1> QED BY <1>1, <1>2 DEF Aside

\* A row of the list opens its version, and a sub-function in scope its interview.
LEMMA RestLeads ==
  ASSUME RestAct
  PROVE  page' = page \/ OpenVersion \/ page' = "newSession"
<1>1. CASE GenomeClick
  BY <1>1 DEF GenomeClick, ObjectRow, UnitRow, RatifyBo, RatifyWhole, IndexTab, ObjectsTab, VersionsKey, GenomeKey,
     Clicks, Looks
<1>2. CASE ScopeClick
  BY <1>2 DEF ScopeClick, SelectFunction, InScope, TypeOwner, BlurOwner, StartInterview, ScopeKey, Clicks, Looks
<1>3. CASE SpecClick
  BY <1>3 DEF SpecClick, FillForm, PickUnit, PickType, TypeOver, Check, ListChecks, Clicks, Looks
<1>4. ASSUME NEW j \in jobs, \/ ServeVersions(j) \/ ServeGenome(j) \/ ServeScope(j) \/ ServeSpec(j)
                             \/ HearVersions(j) \/ HearGenome(j) \/ HearBoard(j) \/ HearPatch(j) \/ HearSpecUnits(j)
                             \/ HearSpec(j)
      PROVE  page' = page
  BY <1>4 DEF ServeVersions, ServeGenome, ServeScope, ServeSpec, HearVersions, HearGenome, HearBoard, HearPatch,
     HearSpecUnits, HearSpec, Serves, Hears
<1> QED BY <1>1, <1>2, <1>3, <1>4 DEF RestAct

\* The four pages, and where they lead.
LEMMA ShownRests ==
  ASSUME page \in RestPages, RestAct, Placed(jobs, RestOps), tidy', calm', ShownInv
  PROVE  ShownInv'
<1>1. tidy /\ calm
  BY RestPatient
<1>2. CASE page' = "newSession"
  BY <1>2 DEF ShownInv
<1>3. CASE page = "versions" /\ page' = "genome"
  <2>1. OpenVersion
    BY <1>3, RestLeads
  <2>2. GenomeOwed(jobs', ui', db')
    BY <1>1, <1>3, <2>1, GenomeOpens DEF ShownInv, VersionsOwed
  <2> QED BY <1>3, <2>2 DEF ShownInv
<1>4. CASE page = "versions" /\ page' = page
  <2>1. VersionsOwed(jobs', ui', db')
    BY <1>1, <1>4, VersionsOwe DEF ShownInv
  <2> QED BY <1>4, <2>1 DEF ShownInv
<1>5. CASE page = "genome"
  <2>1. GenomeOwed(jobs', ui', db')
    BY <1>1, <1>5, GenomeOwe DEF ShownInv
  <2> QED BY <1>2, <1>5, <2>1, RestActs DEF ShownInv
<1>6. CASE page = "scope" /\ page' = page
  <2>1. ScopeOwed(jobs', ui', db')
    BY <1>1, <1>6, ScopeOwe DEF ShownInv
  <2> QED BY <1>6, <2>1 DEF ShownInv
<1>7. CASE page = "spec" /\ page' = page
  <2>1. SpecOwed(jobs', ui', db')
    BY <1>1, <1>7, SpecOwe DEF ShownInv
  <2> QED BY <1>7, <2>1 DEF ShownInv
<1>8. page' = "genome" => page \in {"versions", "genome"}
  <2>1. page' = page \/ OpenVersion \/ page' = "newSession"
    BY RestLeads
  <2> QED BY <2>1 DEF OpenVersion
<1> QED BY <1>2, <1>3, <1>4, <1>5, <1>6, <1>7, <1>8, RestActs DEF RestPages

\* A session that is made is drawn by its own page, which reads it.
LEMMA ShownScouts ==
  ASSUME page \in {"newSession", "scout"}, ScoutAct, OtherPlaceInv, ScoutInv, tidy', calm', ShownInv
  PROVE  ShownInv'
<1>0. acts \in Nat
  BY OtherNames DEF OtherPlaceInv
<1>1. CASE page = "scout"
  <2>1. Alive(jobs, ScoutOps) /\ ScoutShape(ui, db) /\ Waits
    BY <1>1 DEF OtherPlaceInv, ScoutInv
  <2>2. page' = page
    BY <1>0, <1>1, <2>1, ScoutPlaced
  <2>3. tidy /\ calm
    <3>1. DOMAIN db = DOMAIN Session(<<>>, {}) /\ \A j \in jobs : j.op \in ScoutOps
      BY <2>1 DEF ScoutShape, Alive, Placed
    <3> QED BY <1>0, <3>1, ScoutPatient
  <2>4. ScoutOwed(jobs', ui', db', acts')
    BY <1>0, <1>1, <2>1, <2>3, ScoutOwe DEF ShownInv
  <2> QED BY <1>1, <2>2, <2>4 DEF ShownInv
<1>2. CASE page = "newSession"
  <2>1. Creating(jobs, ui)
    BY <1>2 DEF OtherPlaceInv
  <2>2. CASE page' = page
    BY <1>2, <2>2 DEF ShownInv
  <2>3. CASE page' # page
    <3>1. PICK j, m : /\ page' = "scout" /\ ui' = ScoutUi /\ acts' = acts
                      /\ jobs = {j} /\ jobs' = {m} /\ Fresh(m, "session", Nothing) /\ m.n = j.n
      BY <1>0, <1>2, <2>1, <2>3, NewSessionPlaced
    <3>2. j.n \in 0..acts
      BY <1>2, <3>1 DEF ScoutInv
    <3>3. acts' \in Nat /\ \A k \in jobs' : k.op = "session" /\ k.n \in Nat /\ ~Got(k)
      BY <1>0, <3>1, <3>2 DEF Fresh, Got
    <3>4. ScoutOwed(jobs', ScoutUi, db', acts')
      BY <3>3, ScoutOpens
    <3> QED BY <3>1, <3>4 DEF ShownInv
  <2> QED BY <2>2, <2>3
<1> QED BY <1>1, <1>2

LEMMA ShownStep ==
  ASSUME PlaceInv, SitInv, OtherPlaceInv, ScoutInv, ShownInv, [Next]_vars
  PROVE  ShownInv'
<1>1. CASE ~(tidy' /\ calm')
  BY <1>1 DEF ShownInv
<1>2. CASE Aside
  BY <1>2, ShownAside
<1>3. CASE page' \in Desks /\ tidy' /\ calm'
  <2>1. CASE page = "sitClose" /\ SitAct
    <3>1. SitOwed(jobs', ui', db')
      BY <1>3, <2>1, SitPatient, SitOwe DEF ShownInv
    <3> QED BY <1>3, <2>1, <3>1, OwnActs DEF ShownInv
  <2>2. CASE page = "chro" /\ ChroAct
    <3>1. ChroOwed(jobs', ui', db')
      BY <1>3, <2>2, ChroPatient, ChroOwe DEF ShownInv
    <3> QED BY <1>3, <2>2, <3>1, OwnActs DEF ShownInv
  <2>3. CASE page = "evidence" /\ EvidenceAct
    <3>1. EvidenceOwed(jobs', ui', db')
      BY <1>3, <2>3, EvidencePatient, EvidenceOwe DEF ShownInv
    <3> QED BY <1>3, <2>3, <3>1, OwnActs DEF ShownInv
  <2>4. CASE page \in {"deny", "docCheck"}
    BY <1>3, <2>4, OwnActs DEF ShownInv
  <2> QED BY <1>2, <1>3, <2>1, <2>2, <2>3, <2>4, OwnActs
<1>4. CASE page' \in OtherPages /\ tidy' /\ calm'
  <2>1. CASE page \in RestPages /\ RestAct
    <3>1. Placed(jobs, RestOps)
      BY <2>1 DEF OtherPlaceInv
    <3> QED BY <1>4, <2>1, <3>1, ShownRests
  <2>2. CASE page \in {"newSession", "scout"} /\ ScoutAct
    BY <1>4, <2>2, ShownScouts
  <2> QED BY <1>2, <1>4, <2>1, <2>2, OtherActs
<1>5. page' \in Desks \cup OtherPages
  BY OtherPlaceStep DEF OtherPlaceInv
<1> QED BY <1>1, <1>3, <1>4, <1>5

\* Where whoever clicks waits for every answer, and nothing is lost and nobody else
\* writes, a page shows what is stored or has a request under way that will tell.
THEOREM ShownInductive == Spec => [](IInv /\ OtherPlaceInv /\ ScoutInv /\ ShownInv)
<1>1. IInv /\ OtherPlaceInv /\ ScoutInv /\ ShownInv /\ [Next]_vars
        => (IInv /\ OtherPlaceInv /\ ScoutInv /\ ShownInv)'
  BY PlaceStep, SitStep, ChroStep, EvidenceStep, DeskStep, OtherPlaceStep, ScoutStep, ShownStep DEF IInv
<1> QED BY Begins, ScoutBegins, ShownBegins, <1>1, PTL DEF Spec

\* Nothing is under way: nothing owes what is shown.
LEMMA NothingOwed ==
  ASSUME ShownInv
  PROVE  ShownIsStored
<1> SUFFICES ASSUME AtRest
             PROVE  /\ page = "versions" => ui.rows = GqsDetail
                    /\ GenomeDrawn => GenomeShown
                    /\ GridDrawn => ScopeShown
                    /\ page = "spec" /\ ui.checks # Nothing => ui.checks = db
                    /\ SessionDrawn => ScoutShown
                    /\ page = "sitClose" /\ ui.unit => ui.rows = Merged(db.rows)
                    /\ page = "chro" /\ ~ui.look => ui.ws = db.ws
                    /\ page = "evidence" => EvidenceShown
  BY DEF ShownIsStored
<1>0. tidy /\ calm /\ jobs = {} /\ GqsDetail = DetailOf(db)
  BY DEF AtRest, GqsDetail, DetailOf
<1>1. page = "versions" => ui.rows = GqsDetail
  BY <1>0 DEF ShownInv, VersionsOwed
<1>2. GenomeDrawn => GenomeShown
  BY <1>0 DEF GenomeDrawn, GenomeShown, ShownInv, GenomeOwed, ObjectsOf
<1>3. GridDrawn => ScopeShown
  BY <1>0 DEF GridDrawn, ScopeShown, ShownInv, ScopeOwed
<1>4. page = "spec" /\ ui.checks # Nothing => ui.checks = db
  BY <1>0 DEF ShownInv, SpecOwed
<1>5. SessionDrawn => ScoutShown
  <2>1. SUFFICES ASSUME SessionDrawn PROVE ScoutShown
    OBVIOUS
  <2>2. page = "scout" /\ ui.session # Nothing
    BY <2>1 DEF SessionDrawn
  <2>3. ScoutOwed({}, ui, db, acts)
    BY <1>0, <2>2 DEF ShownInv
  <2> QED BY <2>2, <2>3, ScoutRests DEF ScoutShown
<1>6. page = "sitClose" /\ ui.unit => ui.rows = Merged(db.rows)
  BY <1>0 DEF ShownInv, SitOwed
<1>7. page = "chro" /\ ~ui.look => ui.ws = db.ws
  BY <1>0 DEF ShownInv, ChroOwed
<1>8. page = "evidence" => EvidenceShown
  <2>1. SUFFICES ASSUME page = "evidence" PROVE EvidenceShown
    OBVIOUS
  <2>2. ListsOwed({}, ui, db) /\ PoolOwes(Reading({}), ui, db) /\ db.files # Nothing
    BY <1>0, <2>1 DEF ShownInv, EvidenceOwed
  <2>3. Reading({}) = {}
    BY DEF Reading
  <2>4. ui.units = ClaimUnits /\ ui.files = db.files /\ ui.catalogue = Connected(db) /\ ui.gaps = db.gaps
    BY <2>2 DEF ListsOwed, Asks
  <2>5. BothKnown(ui)
    BY <2>2, <2>4, EvidenceAssumption DEF BothKnown
  <2> QED BY <2>2, <2>3, <2>4, <2>5 DEF PoolOwes, EvidenceShown
<1> QED BY <1>1, <1>2, <1>3, <1>4, <1>5, <1>6, <1>7, <1>8

\* Genome.tsx:73, BlastRadius.tsx:62, StoryToStructure.tsx:60, Spec.tsx:96,
\* OfferDeskSitClose.tsx:107.  Where whoever clicks waits for every answer, and
\* nothing is lost and nobody else writes, what a page shows at rest is what is
\* stored.
THEOREM ShownIsStoredAlways == Spec => []ShownIsStored
<1>1. ShownInv => ShownIsStored
  BY NothingOwed
<1> QED BY <1>1, ShownInductive, PTL
=============================================================================
