------------------------------- MODULE Workbench -------------------------------
(***************************************************************************)
(* The pages that talk to the backend by apiFetch, one of them mounted at  *)
(* a time: versions and one version of a genome, Function Scope, Spec, the *)
(* Scout interview, sit close, the sitting of the function leader, and the *)
(* evidence of the census, Spec deny and the document check.               *)
(***************************************************************************)
EXTENDS DeskPages

CONSTANTS SeedUnits,  \* rows a session may begin with: sequences of units
          DeskRows    \* ratifications a sitting may begin with

\* A session may begin with rows of samples and rows typed by hand.
ASSUME SeedAssumption == SeedUnits \subseteq Seq([name : PlainNames, cells : [Fields -> Words]])

\* A ratification is a row as the routes write it.
ASSUME DeskAssumption == DeskRows \subseteq [RowKeys -> SitRatifications \cup {Nothing}]

Init ==
  \/ \E v \in VersionRows : Mounted("versions", v, VersionsUi, {"versions"})
  \/ Mounted("scope", EmptyBoard, GridUi, {"board"})
  \/ Mounted("spec", <<>>, CheckUi, {"specUnits"})
  \/ Mounted("newSession", Nothing, NewSessionUi(""), {})
  \/ \E unit \in BOOLEAN, pointers \in {{}, {SitRows[1]}}, rows \in DeskRows :
       Mounted("sitClose", Sitting(unit, pointers, rows), SitUi, {"sitUnits"})
  \/ \E s \in Sentences : Mounted("chro", SaidBefore(s), ChroUi(FALSE, TRUE, Checks), {"seat", "ws"})
  \/ Mounted("chro", NewSitting, ChroUi(FALSE, FALSE, Checks), {"seat", "ws"})
  \/ \E sample \in BOOLEAN : Mounted("chro", NewSitting, ChroUi(TRUE, sample, {}), {})
  \/ Mounted("evidence", Evidence(Sheets \cup Pdfs, [u \in ToSet(ClaimUnits) |-> NoPointers]), EvidenceUi, EvidenceReads)
  \/ \E units \in {<<>>, <<FALSE>>, <<FALSE, TRUE>>} : Mounted("deny", Desk(units), DenyUi, {})
  \/ Mounted("docCheck", Desk(<<>>), HelperUi, {})
  \/ \E units \in SeedUnits : Mounted("scout", Session(units, {1}), ScoutUi, {"session"})

Click == GenomeClick \/ ScopeClick \/ SpecClick \/ SitClick \/ ChroClick \/ EvidenceClick \/ DeskClick \/ ScoutClick \/ PanelsClick

Served == \E j \in jobs : ServeVersions(j) \/ ServeGenome(j) \/ ServeScope(j) \/ ServeSpec(j) \/ ServeSit(j) \/ ServeChro(j)
                          \/ ServeEvidence(j) \/ ServeDesk(j) \/ ServeCreate(j) \/ ServeGrid(j) \/ ServePanels(j)

Answered == \E j \in jobs :
  \/ HearAbandoned(j) \/ HearVersions(j) \/ HearGenome(j) \/ HearBoard(j) \/ HearPatch(j)
  \/ HearSpecUnits(j) \/ HearSpec(j) \/ HearLive(j) \/ HearConfirm(j) \/ HearChro(j)
  \/ HearEvidence(j) \/ HearDesk(j) \/ HearCreate(j) \/ HearSession(j) \/ HearGrid(j) \/ HearPanels(j)

Next == Click \/ Served \/ Answered \/ Withdraw \/ SettledElsewhere \/ LineElsewhere \/ PointerElsewhere

Spec == Init /\ [][Next]_vars

-----------------------------------------------------------------------------
(* What a page shows, once nothing is under way and nobody clicked early.  *)

AtRest == tidy /\ calm /\ jobs = {}

GenomeShown ==
  /\ ui.gqs = GqsDetail
  /\ ui.objects = ObjectsOf(db)
  /\ ui.selected # Nothing => ui.units = UnitsOf[ui.selected]
  /\ ui.unit # Nothing => ui.unit \in UnitsOf[ui.selected]

ScopeShown ==
  /\ ui.data = db
  /\ \A s \in Subs : ui.focus # s => ui.draft[s] = db[s].owner_name

ScoutShown ==
  /\ ui.session = SessionOut(db)
  /\ ui.panel.name = "replay" => ui.panel.data = db.timeline
  /\ ui.panel.name = "contradictions" => ui.panel.data = db.contradictions

EvidenceShown == ui.claims = db.rows /\ ui.catalogue = Connected(db) /\ ui.gaps = db.gaps

\* Genome.tsx:73, BlastRadius.tsx:62, StoryToStructure.tsx:60, Spec.tsx:96,
\* OfferDeskSitClose.tsx:107.  Where whoever clicks waits for every answer, and
\* nothing is lost and nobody else writes, what a page shows at rest is what is
\* stored: both reads follow a write, a detail is that of the selection, and the
\* drafts of a form are those of its rows.
ShownIsStored ==
  AtRest =>
    /\ page = "versions" => ui.rows = GqsDetail
    /\ GenomeDrawn => GenomeShown
    /\ GridDrawn => ScopeShown
    /\ page = "spec" /\ ui.checks # Nothing => ui.checks = db
    /\ SessionDrawn => ScoutShown
    /\ page = "sitClose" /\ ui.unit => ui.rows = Merged(db.rows)
    /\ page = "chro" /\ ~ui.look => ui.ws = db.ws
    /\ page = "evidence" => EvidenceShown

\* Words in a cell change only by the save of that cell.
WordsChangeBySave ==
  \A i \in DOMAIN db.units, f \in Fields :
    db.units[i].cells[f] \notin {Blank, db'.units[i].cells[f]} =>
      \E j \in jobs : j.op = "saveCell" /\ Arg(j)[1] = i /\ Arg(j)[2] = f

\* WorkCaptureGrid.tsx:100.  Filling the grid, samples and stories leave words where they
\* are, where whoever clicks waits for every answer and nothing is lost.
HandWordsKept == [][page = "scout" /\ tidy /\ calm => WordsChangeBySave]_vars

\* StoryToStructure.tsx:55, 68.  One chunk of one story is one row at most, added
\* alone or with the rest, where whoever clicks waits for every answer.
AddedOnce ==
  page = "scout" /\ tidy /\ calm =>
    \A i, k \in DOMAIN db.units :
      db.units[i].name = db.units[k].name /\ i # k =>
        db.units[i].name = HandRow \/ db.units[i].name \in ToSet(SampleRows)

\* What was refused without evidence was allowed with a file that is stored.
ClearedByEvidence ==
  /\ ui.cleared = "allowed" /\ ui.evidence /\ db.files > 0
  /\ \E i, k \in DOMAIN db.checks :
       /\ i < k
       /\ db.checks[i] = [ref |-> FALSE, result |-> "denied"]
       /\ db.checks[k] = [ref |-> TRUE, result |-> "allowed"]

\* OfferDeskSitClose.tsx:117-145, ChroSitting.tsx:125-141, 247-264, OfferDeskSpecDeny.tsx:79-110.
\* What a page shows as confirmed is stored so, with the same words, and the unit has
\* them, clipped or not, in its column; what it shows as cleared is in the audit trail,
\* after the denial it clears: whatever was lost, refused or answered late, and
\* whoever else settled it.
ConfirmedIsStored ==
  /\ page = "sitClose" =>
       \A f \in RowKeys : Settled(ui.rows[f].row) =>
         /\ db.rows[f] = ui.rows[f].row
         /\ db.column[f] = InColumn(f, ui.rows[f].row.value)
  /\ page = "chro" /\ ui.confirmed => db.ws.confirmed /\ db.ws.label = ui.label
  /\ page = "deny" /\ ui.cleared # Nothing => ClearedByEvidence
  /\ page = "docCheck" /\ ui.uploaded => db.files > 0

\* ChroSitting.tsx:148-156, "Sample text is not saved as a named sitting": while samples are
\* shown, no question has its own sample for a stored answer, whichever request
\* saved the list and whatever was read before it.
SampleNeverSaved ==
  page = "chro" /\ ui.sample => \A q \in Core : db.answers.core[q] # q

\* EvidenceClaims.tsx:79-104, pointers.ts:80.  What is drawn as a fact is in a file that
\* is stored with its content.  If it is a sheet, or a PDF cited by page, that file opens,
\* the cell or the page is there and the words stand at it; otherwise no place is drawn.
\* Who may decide, who may not and what counts as done were said in words that were
\* found.  The page never opens a file, and reads files and claims apart.
FactsOpen ==
  page = "evidence" =>
    \A u \in ToSet(ClaimUnits), f \in Pointerable : FactDrawn(u, f) =>
      LET c == ui.claims[u][f].cites
          paged == c.file \in Pdfs /\ c.page # "none"
      IN /\ c.file \in db.files \ (Empty \cup Foreign)
         /\ c.file \in Sheets => c.cell = "inside"
         /\ paged => c.page = "inside"
         /\ c.file \in Sheets \/ paged => c.file \notin Broken /\ c.words # "other"
         /\ c.file \in Sheets \/ paged \/ {c.page, c.line, c.cell} = {"none"}
         /\ f \in Binding => (c.file \in Sheets \/ paged) /\ c.words = "there"
=============================================================================
