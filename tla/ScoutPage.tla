-------------------------------- MODULE ScoutPage --------------------------------
(***************************************************************************)
(* One Scout interview: the form that starts it, the Work Capture Grid,    *)
(* and the five elevations under it, one of which may be open.  Every      *)
(* route that changes the session answers with the whole session.          *)
(***************************************************************************)
EXTENDS Requests

CONSTANTS Fields,      \* cells of a row, its name apart
          SampleRows,  \* names of HR_SAMPLE_ROWS in their order
          HandRow,     \* the name of a row typed by hand
          Chunks,      \* spans a story is cut into
          Disputed     \* names and cells an interview of the other side answered otherwise

ASSUME HandAssumption == HandRow \notin ToSet(SampleRows)
ASSUME SampleAssumption == SampleRows \in Seq(ToSet(SampleRows))
ASSUME ChunksAssumption == Chunks \in Nat \ {0}
ASSUME DisputedAssumption == Disputed \subseteq (ToSet(SampleRows) \cup {HandRow}) \X Fields

\* A cell has words of the interviewee, of a sample row, or of no one; a row has
\* a name, and that of a chunk is its story and its place in it.
Blank == "blank"

Words == {Blank, "typed", "sample", "placeholder"}

PlainNames == ToSet(SampleRows) \cup {HandRow}

Unit(name, words) == [name |-> name, cells |-> [f \in Fields |-> words]]

\* Nobody asked for its replay or its contradictions yet, which are found by asking.
Session(units, receipts) ==
  [units |-> units, consent |-> Nothing, receipts |-> receipts, revoked |-> {}, contradictions |-> <<>>,
   timeline |-> Nothing, genomes |-> {}]

SessionOut(rows) == [units |-> rows.units, consent |-> rows.consent]

Complete(units) == /\ Len(units) >= Len(SampleRows)
                   /\ \A i \in DOMAIN units, f \in Fields : units[i].cells[f] # Blank

\* The tabs under the grid.
Elevations == {"replay", "contradictions", "heatmap", "story", "preview"}

\* An elevation is new each time it is opened: n is the click that opened it.
Panel(name, n) == [name |-> name, n |-> n, data |-> Nothing, busy |-> {}, result |-> Nothing,
                   added |-> {}, receipts |-> Nothing]

Closed == Panel("none", 0)

ScoutUi == [session |-> Nothing, loading |-> TRUE, error |-> FALSE, needsKey |-> FALSE, since |-> 0,
            editing |-> Nothing, busy |-> FALSE, panel |-> Closed]

-----------------------------------------------------------------------------
(* A new session.                                                          *)

NewSessionUi(name) == [name |-> name, creating |-> FALSE, error |-> FALSE, needsKey |-> FALSE]

TypeName ==
  /\ page = "newSession"
  /\ ui.name = "" /\ ui' = [ui EXCEPT !.name = "typed"]
  /\ Looks

\* The button, Enter in the field, and the key banner do the same.
CreateSession ==
  /\ page = "newSession"
  /\ ui.name # "" /\ ~ui.creating
  /\ Starts({<<"create", Nothing>>})
  /\ ui' = [ui EXCEPT !.creating = TRUE, !.error = FALSE]
  /\ Clicks

ServeCreate(j) ==
  /\ Sent(j, "create")
  /\ Answers(j, "ok", <<>>, Session(<<>>, {}))
  /\ Serves

\* The page of the session it made reads it again.
HearCreate(j) ==
  /\ Heard(j, "create")
  /\ IF j.code = "ok"
     THEN page' = "scout" /\ ui' = ScoutUi /\ GoesOn(j, "session", Nothing)
     ELSE /\ page' = page
          /\ Over(j)
          /\ ui' = IF j.code = "noKey" THEN [ui EXCEPT !.creating = FALSE, !.needsKey = TRUE]
                   ELSE [ui EXCEPT !.creating = FALSE, !.error = TRUE]
  /\ UNCHANGED <<db, tidy, calm, acts, faults>>

-----------------------------------------------------------------------------
(* The session, and the key it may ask for.                                *)

SessionDrawn == /\ page = "scout"
                /\ ~ui.needsKey /\ ~ui.loading /\ ~ui.error /\ ui.session # Nothing

\* While it is read nothing else is mounted, so what is below is new after it.
LoadSession ==
  /\ page = "scout"
  /\ ui.needsKey
  /\ Starts({<<"session", Nothing>>})
  /\ ui' = [ui EXCEPT !.loading = TRUE, !.error = FALSE]
  /\ Clicks

HearSession(j) ==
  /\ Heard(j, "session")
  /\ Over(j)
  /\ LET read == [ui EXCEPT !.loading = FALSE, !.since = acts, !.editing = Nothing, !.busy = FALSE,
                            !.panel = Closed]
     IN ui' = CASE j.code = "ok" -> [read EXCEPT !.session = Body(j), !.needsKey = FALSE]
                [] j.code = "noKey" -> [read EXCEPT !.needsKey = TRUE]
                [] OTHER -> [read EXCEPT !.error = TRUE]
  /\ Hears

\* onNeedsKey hides all that is below the page, which forgets its state.
Hidden(state) == [state EXCEPT !.needsKey = TRUE, !.since = acts, !.editing = Nothing, !.busy = FALSE,
                               !.panel = Closed]

\* onChange: the whole session is taken from the answer.
Changed(state, j) ==
  CASE j.code = "ok" -> [state EXCEPT !.session = Body(j)]
    [] j.code = "noKey" -> Hidden(state)
    [] OTHER -> state

-----------------------------------------------------------------------------
(* The grid.                                                               *)

OfGrid(j) == j.n > ui.since

GridFree(state, j) == IF OfGrid(j) THEN [state EXCEPT !.busy = FALSE] ELSE state

Names(units) == {units[i].name : i \in DOMAIN units}

\* Sample rows the grid has none of the name of, by their places in the list.
Pending(units) == {k \in DOMAIN SampleRows : SampleRows[k] \notin Names(units)}

StartsBusy(op, arg) ==
  /\ ~ui.busy
  /\ Starts({<<op, arg>>})
  /\ ui' = [ui EXCEPT !.busy = TRUE]

\* The row at the foot of the grid has a name and nothing else.
AddRow == SessionDrawn /\ StartsBusy("addRow", HandRow) /\ Clicks

LoadSamples ==
  /\ SessionDrawn
  /\ LET rows == Pending(ui.session.units)
     IN /\ rows # {}
        /\ \E some \in {{Min(rows)}, rows} : StartsBusy("sampleRow", some)
  /\ Clicks

\* Mutant: a cell is filled whether or not it has words.
WantedAll(units) == [i \in DOMAIN units |-> Fields]

\* What to fill is taken from the session on screen when the button is clicked.
Blanks(unit) == {f \in Fields : unit.cells[f] = Blank}

Wanted(units) == [i \in {k \in DOMAIN units : Blanks(units[k]) # {}} |-> Blanks(units[i])]

\* The next request: the cells first, then sample rows up to their number;
\* names are those of the session when the cells were done.
FillRows(rows, units) ==
  IF rows = {} \/ Len(units) >= Len(SampleRows) THEN {} ELSE {<<"fillRow", rows>>}

FillCells(todo, units) ==
  IF DOMAIN todo # {} THEN {<<"fillCells", todo>>} ELSE FillRows(Pending(units), units)

FillToHundred ==
  /\ SessionDrawn
  /\ ~Complete(ui.session.units)
  /\ \E r \in FillCells(Wanted(ui.session.units), ui.session.units) : StartsBusy(r[1], r[2])
  /\ Clicks

RowDrawn == ui.editing # Nothing /\ ui.editing[1] \in DOMAIN ui.session.units

\* A cell is opened by a click on it, busy or not; the one that is open was
\* left then, so its save is under way, or its row is gone.  Bound: while a click
\* is left to save it.
EditCell ==
  /\ SessionDrawn
  /\ acts < MaxActs[page]
  /\ ~RowDrawn \/ Waiting({"saveCell"})
  /\ \E i \in DOMAIN ui.session.units, f \in Fields : ui' = [ui EXCEPT !.editing = <<i, f>>]
  /\ Looks

\* Leaving the field saves it: what was typed, or what was there.
SaveCell ==
  /\ SessionDrawn
  /\ RowDrawn
  /\ LET i == ui.editing[1]
         f == ui.editing[2]
     IN \E words \in {"typed", ui.session.units[i].cells[f]} : Starts({<<"saveCell", <<i, f, words>>>>})
  /\ ui' = [ui EXCEPT !.busy = TRUE]
  /\ Clicks

GridClick == AddRow \/ LoadSamples \/ FillToHundred \/ EditCell \/ SaveCell

CellsSet(rows, i, fs, words) ==
  [rows EXCEPT !.units[i].cells = [f \in Fields |-> IF f \in fs THEN words ELSE @[f]]]

RowAdded(rows, unit) == [rows EXCEPT !.units = Append(@, unit)]

\* A sample row has words in every cell.
SampleUnit(name) == Unit(name, "sample")

FillWords(name) == IF name \in ToSet(SampleRows) THEN "sample" ELSE "placeholder"

\* The unit, or the sample row, the request of a handler is about: the first it
\* has yet to ask for.
Current(j) == Min(IF j.op = "fillCells" THEN DOMAIN Arg(j) ELSE Arg(j))

\* The rows after the request of a grid handler is served.
GridRows(j) ==
  CASE j.op = "addRow" -> RowAdded(db, Unit(Arg(j), Blank))
    [] j.op \in {"sampleRow", "fillRow"} -> RowAdded(db, SampleUnit(SampleRows[Current(j)]))
    [] j.op = "saveCell" -> CellsSet(db, Arg(j)[1], {Arg(j)[2]}, Arg(j)[3])
    [] j.op = "fillCells" ->
         LET i == Current(j) IN CellsSet(db, i, Arg(j)[i], FillWords(db.units[i].name))

GridOps == {"addRow", "sampleRow", "fillRow", "saveCell", "fillCells"}

ServeGrid(j) ==
  /\ j.op \in GridOps /\ j.stage = "sent"
  /\ LET rows == GridRows(j) IN Answers(j, "ok", SessionOut(rows), rows)
  /\ Serves

\* What a handler of several requests sends after the one that was answered.
GridRest(j) ==
  CASE j.code # "ok" -> {}
    [] j.op = "sampleRow" -> IF Arg(j) = {Current(j)} THEN {} ELSE {<<"sampleRow", Arg(j) \ {Current(j)}>>}
    [] j.op = "fillCells" -> FillCells(Restrict(Arg(j), DOMAIN Arg(j) \ {Current(j)}), Body(j).units)
    [] j.op = "fillRow" -> FillRows(Arg(j) \ {Current(j)}, Body(j).units)
    [] OTHER -> {}

\* A save closes the field that is open, whichever that is.
HearGrid(j) ==
  /\ j.op \in GridOps /\ j.stage = "answered"
  /\ LET changed == Changed(ui, j)
         saved == IF j.op = "saveCell" /\ OfGrid(j) THEN [changed EXCEPT !.editing = Nothing] ELSE changed
     IN IF GridRest(j) = {}
        THEN Over(j) /\ ui' = GridFree(saved, j)
        ELSE /\ \E r \in GridRest(j) : GoesOn(j, r[1], r[2])
             /\ ui' = saved
  /\ Hears

ScoutClick == TypeName \/ CreateSession \/ LoadSession \/ GridClick
=============================================================================
