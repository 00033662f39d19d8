------------------------------ MODULE SitClosePage ------------------------------
(***************************************************************************)
(* Sit close of the Offer Desk: a draft of each field stands beside the    *)
(* quote of the sitting; a named person confirms it, or corrects it, and   *)
(* that writes the work unit once.                                         *)
(***************************************************************************)
EXTENDS ScopePages

CONSTANTS SitRows,  \* SIT_CLOSE_ROWS: the fields in their order
          Humans,   \* names a decision card may have
          Clipped   \* _CLIPPED_FIELDS: the column holds the beginning of the line

ASSUME SitAssumption == SitRows \in Seq(ToSet(SitRows))

RowKeys == ToSet(SitRows)

\* A row of field_ratifications; the value is that of the draft, or another line.
Draft(quote) == [quote |-> quote, status |-> "drafted", value |-> "draft"]

SitRatifications == [quote : {"seed", "pointer"}, status : {"drafted", "confirmed", "corrected"},
                     value : {"draft", "another", "theirs"}]

Settled(row) == row # Nothing /\ row.status # "drafted"

InColumn(f, value) == IF f \in Clipped THEN <<"beginning", value>> ELSE <<value>>

\* unit: the work unit of the sitting is there.  pointers: fields with a declared
\* pointer, whose quote is not that of the seed.
NoRatifications == [f \in RowKeys |-> Nothing]

Sitting(unit, pointers, rows) ==
  [unit |-> unit, pointers |-> pointers, rows |-> rows, 
   column |-> [f \in RowKeys |-> IF Settled(rows[f]) THEN InColumn(f, rows[f].value) ELSE <<"old">>],
   humans |-> Humans]

\* A row of the page is its seed until a ratification is known.
SitRow(row) == IF row = Nothing THEN [quote |-> "seed", row |-> Nothing]
                                ELSE [quote |-> row.quote, row |-> row]

Merged(rows) == [f \in RowKeys |-> SitRow(rows[f])]

SitUi == [unit |-> FALSE, rows |-> Merged(NoRatifications), cards |-> Nothing, confirmedBy |-> "",
          lines |-> [f \in RowKeys |-> ""], busy |-> FALSE, error |-> FALSE, needsKey |-> FALSE,
          loadingLive |-> FALSE]

-----------------------------------------------------------------------------
(* ensureSitCloseDrafts: the rows, the pointers, and a draft for each field *)
(* that has no row, in the order of the fields.                            *)

Missing(found) == {i \in DOMAIN SitRows : found[SitRows[i]] = Nothing}

FirstMissing(found) == SitRows[Min(Missing(found))]

LoadLive == <<"list", Nothing>>

HearSitUnits(j) ==
  /\ Heard(j, "sitUnits")
  /\ IF j.code = "ok" /\ Body(j)
     THEN /\ ui' = [ui EXCEPT !.unit = TRUE, !.loadingLive = TRUE, !.error = FALSE]
          /\ GoesOn(j, "list", Nothing)
     ELSE /\ ui' = [ui EXCEPT !.cards = {}]
          /\ Over(j)
  /\ Hears

\* Drafts for the rest are made one by one; with all of them the rows are new
\* at once, and the cards are read.
Ensure(j, found, pointers) ==
  IF Missing(found) = {}
  THEN /\ ui' = [ui EXCEPT !.rows = Merged(found)]
       /\ GoesOn(j, "cards", Nothing)
  ELSE /\ UNCHANGED ui
       /\ GoesOn(j, "draft", [field |-> FirstMissing(found), found |-> found, pointers |-> pointers])

LoadFailed(j) ==
  /\ ui' = [ui EXCEPT !.cards = {}, !.loadingLive = FALSE, !.needsKey = @ \/ j.code = "noKey",
                      !.error = j.code # "noKey"]
  /\ Over(j)

HearList(j) ==
  /\ Heard(j, "list")
  /\ IF j.code = "ok"
     THEN UNCHANGED ui /\ GoesOn(j, "pointers", Body(j))
     ELSE LoadFailed(j)
  /\ Hears

\* Without the pointers, each draft quotes its seed.
HearPointers(j) ==
  /\ Heard(j, "pointers")
  /\ Ensure(j, Arg(j), IF j.code = "ok" THEN Body(j) ELSE {})
  /\ Hears

\* A row that was settled since is read again.
HearDraft(j) ==
  /\ \/ /\ Heard(j, "draft")
        /\ CASE j.code = "ok" -> Ensure(j, [Arg(j).found EXCEPT ![Arg(j).field] = Body(j)], Arg(j).pointers)
             [] j.code = "conflict" -> UNCHANGED ui /\ GoesOn(j, "reread", Arg(j))
             [] OTHER -> LoadFailed(j)
     \/ /\ Heard(j, "reread")
        /\ IF j.code = "ok"
           THEN Ensure(j, [f \in RowKeys |-> IF Body(j)[f] = Nothing THEN Arg(j).found[f] ELSE Body(j)[f]],
                       Arg(j).pointers)
           ELSE LoadFailed(j)
  /\ Hears

HearCards(j) ==
  /\ Heard(j, "cards")
  /\ IF j.code = "ok"
     THEN /\ ui' = [ui EXCEPT !.cards = Body(j), !.loadingLive = FALSE, !.needsKey = FALSE]
          /\ Over(j)
     ELSE LoadFailed(j)
  /\ Hears

HearLive(j) == HearSitUnits(j) \/ HearList(j) \/ HearPointers(j) \/ HearDraft(j) \/ HearCards(j)

SitKey ==
  /\ page = "sitClose" /\ ui.needsKey
  /\ Starts({LoadLive})
  /\ ui' = [ui EXCEPT !.loadingLive = TRUE, !.error = FALSE]
  /\ Clicks

-----------------------------------------------------------------------------
(* Confirm and Correct.                                                    *)

\* Who confirms is typed, or is the name of a card that has one.
NameConfirmer ==
  /\ page = "sitClose" /\ ui.unit
  /\ ui.confirmedBy = ""
  /\ \/ ui' = [ui EXCEPT !.confirmedBy = "typed"]
     \/ /\ ~ui.loadingLive /\ ui.cards # Nothing
        /\ \E h \in ui.cards \ {"not named"} : ui' = [ui EXCEPT !.confirmedBy = h]
  /\ Looks

CanWrite(f) ==
  LET r == ui.rows[f] IN
    /\ ui.unit
    /\ r.row # Nothing /\ r.row.status = "drafted"
    /\ ui.confirmedBy # "" /\ r.quote # ""

\* A line is typed once, the text of the draft or another.
TypeLine ==
  /\ page = "sitClose" /\ ~ui.busy
  /\ \E f \in RowKeys, line \in {"draft", "another"} :
       /\ ui.rows[f].row # Nothing /\ ~Settled(ui.rows[f].row)
       /\ ui.lines[f] = ""
       /\ ui' = [ui EXCEPT !.lines[f] = line]
  /\ Looks

OnConfirm ==
  /\ page = "sitClose" /\ ~ui.busy
  /\ \E f \in RowKeys : CanWrite(f) /\ Starts({<<"confirm", [field |-> f, value |-> "draft"]>>})
  /\ ui' = [ui EXCEPT !.busy = TRUE, !.error = FALSE]
  /\ Clicks

OnCorrect ==
  /\ page = "sitClose" /\ ~ui.busy
  /\ \E f \in RowKeys : /\ CanWrite(f) /\ ui.lines[f] \notin {"", "draft"}
                        /\ Starts({<<"confirm", [field |-> f, value |-> ui.lines[f]]>>})
  /\ ui' = [ui EXCEPT !.busy = TRUE, !.error = FALSE]
  /\ Clicks

ReplaceRow(f, row) == [ui EXCEPT !.rows[f] = SitRow(row), !.busy = FALSE]

\* Mutant: the row is shown as it was asked for, whatever was answered.
AfterConfirmAsAsked(j) ==
  ReplaceRow(Arg(j).field,
             [ui.rows[Arg(j).field].row EXCEPT !.value = Arg(j).value,
                !.status = IF Arg(j).value = "draft" THEN "confirmed" ELSE "corrected"])

\* A row somebody else settled stays as it is drawn, with an error.
AfterConfirm(j) ==
  CASE j.code = "ok" -> ReplaceRow(Arg(j).field, Body(j))
    [] j.code = "noKey" -> [ui EXCEPT !.needsKey = TRUE, !.busy = FALSE]
    [] OTHER -> [ui EXCEPT !.error = TRUE, !.busy = FALSE]

HearConfirm(j) ==
  /\ Heard(j, "confirm")
  /\ Over(j)
  /\ ui' = AfterConfirm(j)
  /\ Hears

SitClick == SitKey \/ NameConfirmer \/ TypeLine \/ OnConfirm \/ OnCorrect

-----------------------------------------------------------------------------
(* The backend.                                                            *)

\* A declared pointer whose quote is too short is not quoted by the page.
PostedQuote(arg) == IF arg.field \in arg.pointers THEN "pointer" ELSE "seed"

\* A draft that stands is kept; one that would not quote the pointer is refused.
ServeDraft(j) ==
  LET f == Arg(j).field
      row == Draft(PostedQuote(Arg(j)))
  IN /\ Sent(j, "draft")
     /\ CASE Settled(db.rows[f]) -> Answers(j, "conflict", Nothing, db)
          [] db.rows[f] # Nothing /\ ~Settled(db.rows[f]) -> Answers(j, "ok", db.rows[f], db)
          [] OTHER -> IF f \in db.pointers /\ row.quote # "pointer"
                      THEN Answers(j, "refused", Nothing, db)
                      ELSE Answers(j, "ok", row, [db EXCEPT !.rows[f] = row])

Writable(row) == row.status = "drafted"

SettledWith(rows, f, value) ==
  LET status == IF value = "draft" THEN "confirmed" ELSE "corrected"
  IN [rows EXCEPT !.rows[f].status = status, !.rows[f].value = value, !.column[f] = InColumn(f, value)]

ServeConfirm(j) ==
  LET f == Arg(j).field
      rows == SettledWith(db, f, Arg(j).value)
  IN /\ Sent(j, "confirm")
     /\ IF Writable(db.rows[f]) THEN Answers(j, "ok", rows.rows[f], rows)
                                ELSE Answers(j, "conflict", Nothing, db)

ServeSit(j) ==
  /\ \/ Sent(j, "sitUnits") /\ Answers(j, "ok", db.unit, db)
     \/ Sent(j, "list") /\ Answers(j, "ok", db.rows, db)
     \/ Sent(j, "reread") /\ Answers(j, "ok", db.rows, db)
     \/ Sent(j, "pointers") /\ Answers(j, "ok", db.pointers, db)
     \/ Sent(j, "cards") /\ Answers(j, "ok", db.humans, db)
     \/ ServeDraft(j) \/ ServeConfirm(j)
  /\ Serves

\* Another visitor drafts a field, or settles it with a line of their own.
SettledElsewhere ==
  /\ page = "sitClose" /\ db.unit
  /\ acts < MaxActs[page]
  /\ acts' = acts + 1
  /\ calm' = FALSE
  /\ \E f \in RowKeys :
       /\ ~Settled(db.rows[f])
       /\ db' = SettledWith([db EXCEPT !.rows[f] = Draft("seed")], f, "theirs")
  /\ UNCHANGED <<page, jobs, ui, tidy, faults>>
=============================================================================
