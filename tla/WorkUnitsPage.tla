------------------------------ MODULE WorkUnitsPage ------------------------------
(***************************************************************************)
(* The Work Units page: the list in groups, with its search and filters,   *)
(* the upload of a workbook row by row, and Bulk create, which Verification *)
(* has too.                                                                *)
(***************************************************************************)
EXTENDS ConsoleForms

CONSTANTS Functions, FunctionOf,    \* groups of the list, and the one of each code
          Other,                    \* the group of a code with no known prefix
          Industries, IndustryOf,
          Hits,                     \* codes that match the search text
          Employee,                 \* the business object of a row that names none
          Workbooks                 \* files to upload: sequences of rows

Rows == [code : Codes \cup {Nothing}, object : Objects \cup {Nothing}]

ASSUME FunctionAssumption == FunctionOf \in [Codes -> Functions] /\ IndustryOf \in [Codes -> Industries]
ASSUME FilterAssumption == Hits \subseteq Codes /\ Employee \in Objects
ASSUME WorkbookAssumption == Workbooks \subseteq Seq(Rows)

NoUpload == [rows |-> <<>>, at |-> 1, known |-> {}, cache |-> {}, created |-> <<>>,
             existing |-> <<>>, failed |-> <<>>]

\* expanded: the groups a former visit left open in localStorage.
WorkUnitsUi(open) ==
  [busy |-> {}, tab |-> "intake", sel |-> Nothing, search |-> FALSE, expanded |-> open, collapsed |-> {},
   upload |-> NoUpload]

-----------------------------------------------------------------------------
(* The list.                                                               *)

\* The four filters narrow the list as the search does, and open no group: they
\* are left out.
Filtered(u, items) == {c \in items \cap Codes : u.search => c \in Hits}

Group(f, u, items) == {c \in Filtered(u, items) : FunctionOf[c] = f}

\* Mutant: an industry that was folded stays folded.
RegroupedFolded(u, items) ==
  IF ~u.search THEN u
  ELSE [u EXCEPT !.expanded = {f \in Functions : Group(f, u, items) # {}}]

\* The effects of the component: while something is searched, a new list of
\* groups opens those that have a hit, and every industry in them.
Regrouped(u, items) ==
  IF ~u.search THEN u
  ELSE [u EXCEPT !.expanded = {f \in Functions : Group(f, u, items) # {}},
                 !.collapsed = {}]

Unfolded(u, items) == {c \in Filtered(u, items) :
                         /\ FunctionOf[c] \in u.expanded
                         /\ <<FunctionOf[c], IndustryOf[c]>> \notin u.collapsed}

Flip(x, S) == IF x \in S THEN S \ {x} ELSE S \cup {x}

Search == ui' = Regrouped([ui EXCEPT !.search = ~@], shown["units"].units)

ToggleGroup == \E f \in Functions :
  ui' = [ui EXCEPT !.expanded = Flip(f, @)]

ToggleIndustry == \E f \in ui.expanded, i \in Industries :
  /\ \E c \in Group(f, ui, shown["units"].units) : IndustryOf[c] = i
  /\ ~Loading("units")
  /\ ui' = [ui EXCEPT !.collapsed = Flip(<<f, i>>, @)]

ExpandAll == ui' = [ui EXCEPT !.expanded = Functions \ {Other}]
CollapseAll == ui' = [ui EXCEPT !.expanded = {}, !.collapsed = {}]

SelectRow == ~Loading("units") /\ \E c \in Unfolded(ui, shown["units"].units) : ui' = [ui EXCEPT !.sel = c]

Browse ==
  /\ page = "workUnits"
  /\ \/ Search  \/ ToggleGroup \/ ToggleIndustry \/ ExpandAll \/ CollapseAll
     \/ SelectRow
  /\ UNCHANGED <<page, db, jobs, shown, tidy, calm, acts, faults>>

-----------------------------------------------------------------------------
(* The upload.                                                             *)

KeyOf(row) == IF row.object = Nothing THEN Employee ELSE row.object

\* A row of the sheet without a code is no row.
ParsedRows(file) ==
  LET parsed[k \in 0..Len(file)] ==
        IF k = 0 THEN <<>>
        ELSE IF file[k].code = Nothing THEN parsed[k - 1] ELSE Append(parsed[k - 1], file[k])
  IN parsed[Len(file)]

\* The rows from i on whose code is known by now are existing ones: the first
\* that is not is the next to send.
NextNew(u, i) ==
  Min({k \in i..Len(u.rows) : u.rows[k].code \notin u.known} \cup {Len(u.rows) + 1})

Advanced(u, i) ==
  LET k == NextNew(u, i) IN
    [u EXCEPT !.at = k, !.existing = @ \o [x \in 1..(k - i) |-> u.rows[i + x - 1].code]]

Code(u) == u.rows[u.at].code

\* ensureBusinessObject: a type that is known needs no request.
FirstRequest(u, n) ==
  IF KeyOf(u.rows[u.at]) \in u.cache THEN Job("uploadUnit", Code(u), n)
                                     ELSE Job("uploadType", KeyOf(u.rows[u.at]), n)

\* Send what row u.at needs, or finish: the summary, and three reloads.
Continue(u, js, n) ==
  IF u.at <= Len(u.rows)
  THEN /\ jobs' = js \cup {FirstRequest(u, n)}
       /\ ui' = [ui EXCEPT !.upload = u]
  ELSE /\ jobs' = Reloaded({"units", "types"}, js)
       /\ ui' = [ui EXCEPT !.upload = u, !.busy = @ \ {"upload"}]

StartUpload(file) ==
  /\ page = "workUnits"
  /\ "upload" \notin ui.busy
  /\ acts < MaxActs
  /\ acts' = acts + 1
  /\ tidy' = (tidy /\ Handlers = {})
  /\ LET rows == ParsedRows(file)
         u == Advanced([NoUpload EXCEPT !.rows = rows, !.known = shown["units"].units,
                                        !.cache = shown["types"].types], 1)
     IN CASE rows = <<>> -> ui' = ui /\ jobs' = jobs
          [] u.at > Len(rows) ->
               /\ ui' = [ui EXCEPT !.upload = u]
               /\ jobs' = Reloaded({"units", "types"}, jobs)
          [] OTHER ->
               /\ ui' = [ui EXCEPT !.busy = @ \cup {"upload"}, !.upload = u]
               /\ jobs' = jobs \cup {FirstRequest(u, acts + 1)}
  /\ UNCHANGED <<page, db, shown, calm, faults>>

UploadSteps == {"uploadType", "uploadReread", "uploadUnit"}

\* POST /ontology/types and POST /work-units answer 409 to a name they have.
UploadServed(j) ==
  /\ j.op \in UploadSteps
  /\ j.stage = "sent"
  /\ CASE j.op = "uploadReread" -> Answers(j, "ok", View("types"), db)
       [] j.op = "uploadType" ->
            IF j.arg \in db["types"] THEN Answers(j, "conflict", <<>>, db)
            ELSE \/ Answers(j, "refused", <<>>, db)
                 \/ Answers(j, "ok", <<>>, [db EXCEPT !["types"] = @ \cup {j.arg}])
       [] OTHER ->
            IF j.arg \in db["units"] THEN Answers(j, "conflict", <<>>, db)
            ELSE \/ Answers(j, "refused", <<>>, db)
                 \/ Answers(j, "ok", <<>>, [db EXCEPT !["units"] = @ \cup {j.arg}])
  /\ UNCHANGED <<page, shown, ui, tidy, acts>>

\* The row of u is over: it was created, it is there already, or it failed.
\* Mutant: whatever was refused is taken for a row that is there.
RowOverAnyError(u, code) ==
  CASE code = "ok" -> [u EXCEPT !.created = Append(@, Code(u)), !.known = @ \cup {Code(u)}]
    [] OTHER -> [u EXCEPT !.existing = Append(@, Code(u)), !.known = @ \cup {Code(u)}]

RowOver(u, code) ==
  CASE code = "ok" -> [u EXCEPT !.created = Append(@, Code(u)), !.known = @ \cup {Code(u)}]
    [] code = "conflict" -> [u EXCEPT !.existing = Append(@, Code(u)), !.known = @ \cup {Code(u)}]
    [] OTHER -> [u EXCEPT !.failed = Append(@, Code(u))]

HearUpload(j) ==
  /\ j.op \in UploadSteps
  /\ j.stage = "answered"
  /\ LET u == ui.upload
         key == KeyOf(u.rows[u.at])
         Over(code) == Continue(Advanced(RowOver(u, code), u.at + 1), jobs \ {j}, j.n)
         SendUnit == /\ jobs' = (jobs \ {j}) \cup {Job("uploadUnit", Code(u), j.n)}
                     /\ ui' = [ui EXCEPT !.upload.cache = @ \cup {key}]
     IN CASE j.op = "uploadUnit" -> Over(j.code)
          [] j.op = "uploadType" /\ j.code = "ok" -> SendUnit
          [] j.op = "uploadType" /\ j.code = "conflict" ->
               /\ jobs' = Reloaded({"types"}, jobs \ {j}) \cup {Job("uploadReread", key, j.n)}
               /\ ui' = ui
          [] j.op = "uploadReread" /\ j.code = "ok" ->
               IF key \in j.body.types THEN SendUnit ELSE Over("conflict")
          [] OTHER -> Over(j.code)
  /\ UNCHANGED <<page, db, shown, tidy, calm, acts, faults>>

-----------------------------------------------------------------------------
(* Bulk create: FullSet runs, one request after the other.  The rows that  *)
(* Record a run writes are not passing ones.                               *)

BulkRow(n, i) == MaxActs + (n - 1) * FullSet + i

PassedCount == Cardinality({r \in shown["runs"].runs : r > MaxActs})

\* The button looks at its busy flag, the nudge of Verification does not.
BulkOffered ==
  /\ page \in {"workUnits", "verification"}
  /\ PassedCount < FullSet
  /\ IF page = "workUnits" THEN ui.sel \in shown["units"].units /\ "bulk" \notin ui.busy
                           ELSE shown["units"].units # {}

StartBulk ==
  /\ BulkOffered
  /\ Starts("bulk", 1)
  /\ ui' = [ui EXCEPT !.busy = @ \cup {"bulk"}]
  /\ UNCHANGED <<page, db, shown, calm, faults>>

BulkServed(j) ==
  /\ j.op = "bulk"
  /\ j.stage = "sent"
  /\ \/ Answers(j, "refused", <<>>, db)
     \/ Answers(j, "ok", <<>>, [db EXCEPT !["runs"] = @ \cup {BulkRow(j.n, j.arg)}])
  /\ UNCHANGED <<page, shown, ui, tidy, acts>>

\* Mutant: one run short of what the banner says.
BulkEndsEarly(j) == j.arg + 1 >= FullSet

BulkEnds(j) == j.arg >= FullSet

\* The first run that fails ends it: what was recorded stays, and the page
\* does not ask again.
HearBulk(j) ==
  /\ j.op = "bulk"
  /\ j.stage = "answered"
  /\ CASE j.code # "ok" ->
            /\ jobs' = jobs \ {j}
            /\ ui' = [ui EXCEPT !.busy = @ \ {"bulk"}]
            /\ calm' = (calm /\ j.arg = 1)
       [] j.code = "ok" /\ ~BulkEnds(j) ->
            /\ jobs' = (jobs \ {j}) \cup {Job("bulk", j.arg + 1, j.n)}
            /\ UNCHANGED <<ui, calm>>
       [] OTHER ->
            /\ jobs' = Reloaded(IF page = "workUnits" THEN {"units", "runs"} ELSE VerificationHooks,
                                jobs \ {j})
            /\ ui' = [ui EXCEPT !.busy = @ \ {"bulk"}]
            /\ UNCHANGED calm
  /\ UNCHANGED <<page, db, shown, tidy, acts, faults>>
=============================================================================
