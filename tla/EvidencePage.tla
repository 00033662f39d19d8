------------------------------ MODULE EvidencePage ------------------------------
(***************************************************************************)
(* Evidence of the Work Census: each claim of a work unit with the pointer *)
(* that backs it, the files and whether they are connected, and the gaps.  *)
(* The backend opens a pointer when it is written, and never again.        *)
(***************************************************************************)
EXTENDS ChroPage

CONSTANTS Files, Sheets, Pdfs,  \* files, and those named as a sheet or as a PDF
          Empty, Foreign,       \* without content; PDFs by their name only
          Broken,               \* whose content does not open
          Citations,            \* what a pointer may cite
          ClaimUnits,           \* work units in their order
          PlainFields, Binding, \* pointerable fields; BINDING_FIELDS
          Requested,            \* the statuses that are asked for
          Limit                 \* requests of mapPool at a time

ASSUME EvidenceAssumption == /\ Sheets \cup Pdfs \cup Empty \cup Broken \subseteq Files
                             /\ Foreign \subseteq Pdfs /\ Sheets \cap Pdfs = {}
                             /\ Limit \in Nat \ {0}
                             /\ ClaimUnits # <<>> /\ ClaimUnits \in Seq(ToSet(ClaimUnits))
                             /\ Nothing \notin {ClaimUnits, Sheets \cup Pdfs}

\* A pointer may carry a page, a line and a cell at once: none, or one that is
\* there or is not (a sheet has no pages, a PDF no cells).  words: none, words
\* that stand where the file is read, or other words.
Citation == {c \in [file : Files \cup {Nothing}, page : {"none", "inside", "outside"}, line : {"none", "given"},
                    cell : {"none", "inside", "outside"}, words : {"none", "there", "other"}] :
               /\ c.file \in Sheets => c.page # "inside"
               /\ c.file \in Pdfs => c.cell # "inside"}

ASSUME CitationAssumption == Citations \subseteq Citation

Pointerable == PlainFields \cup Binding

NoPointers == [f \in Pointerable |-> Nothing]

\* gaps: those of pointers that did not open; the fabrication count is as high.
Evidence(files, rows) == [files |-> files, rows |-> rows, gaps |-> 0]

EvidenceUi == [units |-> Nothing, files |-> Nothing, queue |-> <<>>, read |-> <<>>, claims |-> <<>>,
               loading |-> TRUE, error |-> FALSE, needsKey |-> FALSE, catalogue |-> Nothing, gaps |-> Nothing]

EvidenceReads == {"claimUnits", "claimFiles", "catalogue", "gaps"}

-----------------------------------------------------------------------------
(* The backend.                                                            *)

\* A sheet is read by its cell and a PDF by its page; what else a pointer gives is
\* not looked at.
ReadAt(c) == c.file \in Sheets \/ (c.file \in Pdfs /\ c.page # "none")

PlaceRead(c) == IF c.file \in Sheets THEN c.cell ELSE c.page

\* resolve_pointer opens the file to find the place and to compare the words; where
\* there is no place, that a file has content (and a PDF its prefix) is enough.
Resolved(c) ==
  /\ c.file \notin {Nothing} \cup Empty \cup Foreign
  /\ IF ReadAt(c)
     THEN c.file \notin Broken /\ PlaceRead(c) = "inside" /\ c.words # "other"
     ELSE c.page = "none" /\ c.line = "none" /\ c.cell = "none"

Verified(c) == Resolved(c) /\ ReadAt(c) /\ c.words = "there"

\* Mutant: for a binding field it is enough that the pointer opens.
StandsOpened(f, requested, c) ==
  f \in Binding => requested = "declared" /\ c.words # "none" /\ Resolved(c)

\* A binding field takes what was said, with words that were found, or nothing.
Stands(f, requested, c) ==
  f \in Binding => requested = "declared" /\ c.words # "none" /\ Verified(c)

Pointer(requested, c) ==
  [requested |-> requested, cites |-> c, resolved |-> Resolved(c),
   status |-> IF requested \in {"observed", "reconstructed"} /\ ~Resolved(c) THEN "predicted" ELSE requested]

\* Another caller writes a pointer, or uploads a file.
PointerElsewhere ==
  /\ page = "evidence"
  /\ acts < MaxActs[page]
  /\ acts' = acts + 1
  /\ calm' = FALSE
  /\ \/ \E u \in ToSet(ClaimUnits), f \in Pointerable, requested \in Requested, c \in Citations :
          LET row == Pointer(requested, c)
          IN /\ c.file \in db.files \cup {Nothing}
             /\ Stands(f, requested, c)
             /\ db' = [db EXCEPT !.rows[u][f] = row,
                                 !.gaps = IF row.status = requested THEN @ ELSE @ + 1]
     \/ \E file \in Files \ db.files : db' = [db EXCEPT !.files = @ \cup {file}]
  /\ UNCHANGED <<page, jobs, ui, tidy, faults>>

\* evidence_catalogue: the files that a pointer opened.
Connected(state) ==
  {file \in state.files : \E u \in ToSet(ClaimUnits), f \in Pointerable :
     state.rows[u][f] # Nothing /\ state.rows[u][f].resolved /\ state.rows[u][f].cites.file = file}

ServeEvidence(j) ==
  /\ \/ Sent(j, "claimUnits") /\ Answers(j, "ok", ClaimUnits, db)
     \/ Sent(j, "claimFiles") /\ Answers(j, "ok", db.files, db)
     \/ Sent(j, "claims") /\ Answers(j, "ok", db.rows[Arg(j)], db)
     \/ Sent(j, "catalogue") /\ Answers(j, "ok", Connected(db), db)
     \/ Sent(j, "gaps") /\ Answers(j, "ok", db.gaps, db)
  /\ Serves

-----------------------------------------------------------------------------
(* The page.  It only reads, once; the banner of the key goes away.        *)

\* mapPool: as many requests as the limit allows, and the rest in a queue.
Pooled(j, units) ==
  LET now == Min({Limit, Len(units)})
  IN jobs' = (jobs \ {j}) \cup {Job("claims", units[i], 0) : i \in 1..now}

\* Promise.all: the first that fails ends it, and the pool waits for both.
HearPair(j) ==
  /\ \/ Heard(j, "claimUnits") \/ Heard(j, "claimFiles")
  /\ LET got == IF j.op = "claimUnits" THEN [ui EXCEPT !.units = Body(j)] ELSE [ui EXCEPT !.files = Body(j)]
     IN CASE ~ui.loading -> UNCHANGED ui /\ Over(j)
          [] ui.loading /\ j.code # "ok" ->
               /\ ui' = [ui EXCEPT !.loading = FALSE, !.needsKey = j.code = "noKey", !.error = j.code # "noKey"]
               /\ Over(j)
          [] ui.loading /\ j.code = "ok" /\ Nothing \in {got.units, got.files} -> ui' = got /\ Over(j)
          [] OTHER ->
               /\ ui' = [got EXCEPT !.queue = SubSeq(got.units, Limit + 1, Len(got.units))]
               /\ Pooled(j, got.units)
  /\ Hears

\* The pointers of a unit that could not be read are no pointers.
HearClaims(j) ==
  /\ Heard(j, "claims")
  /\ LET rows == IF j.code = "ok" THEN Body(j) ELSE NoPointers
         read == [u \in DOMAIN ui.read \cup {Arg(j)} |-> IF u = Arg(j) THEN rows ELSE ui.read[u]]
     IN IF ui.queue # <<>>
        THEN /\ ui' = [ui EXCEPT !.read = read, !.queue = Tail(@)]
             /\ GoesOn(j, "claims", Head(ui.queue))
        ELSE /\ ui' = IF DOMAIN read = ToSet(ui.units)
                      THEN [ui EXCEPT !.read = read, !.claims = read, !.loading = FALSE]
                      ELSE [ui EXCEPT !.read = read]
             /\ Over(j)
  /\ Hears

HearLists(j) ==
  /\ \/ /\ Heard(j, "catalogue")
        /\ ui' = IF j.code = "ok" THEN [ui EXCEPT !.catalogue = Body(j)] ELSE ui
     \/ /\ Heard(j, "gaps")
        /\ ui' = IF j.code = "ok" THEN [ui EXCEPT !.gaps = Body(j)] ELSE ui
  /\ Over(j)
  /\ Hears

HearEvidence(j) == HearPair(j) \/ HearClaims(j) \/ HearLists(j)

EvidenceClick ==
  /\ page = "evidence" /\ ui.needsKey
  /\ ui' = [ui EXCEPT !.needsKey = FALSE]
  /\ Looks

\* A claim that is drawn; any of them may be selected.
ClaimDrawn(u, f) == u \in DOMAIN ui.claims /\ ui.claims[u][f] # Nothing

IsFact(row, f) ==
  /\ row.resolved
  /\ IF f \in Binding THEN row.status = "declared" /\ row.cites.words # "none"
                      ELSE row.status \in {"observed", "declared", "reconstructed"}

\* ClaimDetail draws the place and the words of a fact, where the file is one
\* of those that were listed.
FactDrawn(u, f) ==
  /\ ClaimDrawn(u, f)
  /\ ui.claims[u][f].cites.file \in ui.files
  /\ IsFact(ui.claims[u][f], f)
=============================================================================
