------------------------------- MODULE ScoutPanels -------------------------------
(***************************************************************************)
(* The elevations under the grid of a Scout interview: the replay of a     *)
(* day, contradictions, the heatmap, a story cut into rows, and the        *)
(* preview of the genome behind its consent gate.                          *)
(***************************************************************************)
EXTENDS ScoutPage

InPanel(j, name) == ui.panel.name = name /\ j.n >= ui.panel.n

\* Each but the story reads when it is mounted.  Bound: the story is opened while
\* no request is under way.
OpenElevation ==
  /\ \E e \in Elevations \ {ui.panel.name} :
       /\ ui' = [ui EXCEPT !.panel = Panel(e, acts + 1)]
       /\ IF e = "story" THEN jobs = {} /\ UNCHANGED <<jobs, tidy, acts>> ELSE Starts({<<e, Nothing>>})
  /\ Clicks

\* Bound: while no request is under way, and a click is left to send one.
CloseElevation ==
  /\ ui.panel # Closed
  /\ jobs = {} /\ acts < MaxActs[page]
  /\ ui' = [ui EXCEPT !.panel = Closed]
  /\ Looks

\* A button of an open elevation; flag is what it disables itself with.
PanelClick(name, flag, op, arg) ==
  /\ ui.panel.name = name
  /\ flag \notin ui.panel.busy
  /\ Starts({<<op, arg>>})
  /\ ui' = [ui EXCEPT !.panel.busy = @ \cup {flag}]
  /\ Clicks

\* What it reads has come.
PanelRead == ui.panel.data # Nothing

\* The stored replay is that of the units when it was built.
Rebuild == ui.panel.name = "replay" /\ PanelRead /\ PanelClick("replay", "rebuild", "rebuild", Nothing)

\* What is typed into an open one resolves it; only the one clicked last is busy.
Resolve ==
  /\ ui.panel.name = "contradictions" /\ PanelRead
  /\ \E c \in DOMAIN ui.panel.data \ ui.panel.busy :
       /\ ui.panel.data[c] = "open"
       /\ Starts({<<"resolve", c>>})
       /\ ui' = [ui EXCEPT !.panel.busy = {c}]
  /\ Clicks

\* A new extraction forgets which chunks of the last one were added.
Extract ==
  /\ ui.panel.name = "story" /\ "extract" \notin ui.panel.busy
  /\ Starts({<<"extract", Nothing>>})
  /\ ui' = [ui EXCEPT !.panel.busy = @ \cup {"extract"}, !.panel.added = {}]
  /\ Clicks

Remaining == (1..Chunks) \ ui.panel.added

\* A chunk keeps its button until its row is in the grid.
AddOne ==
  /\ ui.panel.name = "story" /\ ui.panel.result # Nothing
  /\ "addAll" \notin ui.panel.busy
  /\ \E k \in Remaining : Starts({<<"addOne", <<ui.panel.result, {k}>>>>})
  /\ UNCHANGED ui
  /\ Clicks

\* Those that were not added when the button was drawn, one after the other.
AddAll ==
  /\ ui.panel.result # Nothing /\ Remaining # {}
  /\ PanelClick("story", "addAll", "addAll", <<ui.panel.result, Remaining>>)

\* Without a consent receipt the preview is its gate.
Gated == ui.session.consent = Nothing

Attach ==
  /\ ui.panel.name = "preview" /\ PanelRead /\ Gated /\ ui.panel.receipts # Nothing
  /\ \E r \in ui.panel.receipts : PanelClick("preview", "consent", "attach", r)

CreateAndAttach == PanelRead /\ Gated /\ PanelClick("preview", "consent", "createReceipt", Nothing)

\* The preview was read when it was mounted: the grid may have changed since.
Locked == ~ui.panel.data.unlocked

Generate ==
  /\ ui.panel.name = "preview" /\ PanelRead /\ ~Gated
  /\ ~Locked
  /\ PanelClick("preview", "generate", "generate", Nothing)

PanelsClick ==
  /\ SessionDrawn
  /\ \/ OpenElevation \/ CloseElevation
     \/ Rebuild \/ Resolve \/ Extract \/ AddOne \/ AddAll
     \/ Attach \/ CreateAndAttach \/ Generate

-----------------------------------------------------------------------------
(* The backend.                                                            *)

Active(rows) == rows.receipts \ rows.revoked

StoryOps == {"addOne", "addAll"}

\* The first chunk of those the request is about.
Chunk(j) == Min(Arg(j)[2])

ChunkName(j) == <<Arg(j)[1], Chunk(j)>>

\* A genome needs units, and a receipt that is attached; whether that is active
\* is asked by the import, which answers that it did not accept.
Generated(rows, n) ==
  IF rows.consent \in Active(rows) THEN [rows EXCEPT !.genomes = @ \cup {<<n, rows.consent>>}] ELSE rows

Built(rows) == [rows EXCEPT !.timeline = rows.units]

\* The first read of the replay builds and stores it.
BuiltOnce(rows) == IF rows.timeline = Nothing THEN Built(rows) ELSE rows

\* Of units of one name the first counts, and words in the cell that is disputed.
Contradicts(units, d) ==
  \E i \in DOMAIN units : /\ units[i].name = d[1] /\ units[i].cells[d[2]] # Blank
                         /\ \A k \in DOMAIN units : units[k].name = d[1] => i <= k

\* detect_and_upsert, on every read of the list: one that is listed stays as it is.
Detected(rows) ==
  LET fresh == {d \in Disputed : Contradicts(rows.units, d)}
      old == rows.contradictions
  IN [rows EXCEPT !.contradictions = [d \in DOMAIN old \cup fresh |-> IF d \in DOMAIN old THEN old[d] ELSE "open"]]

ServePanels(j) ==
  /\ \/ Sent(j, "session") /\ Answers(j, "ok", SessionOut(db), db)
     \/ Sent(j, "replay") /\ Answers(j, "ok", BuiltOnce(db).timeline, BuiltOnce(db))
     \/ Sent(j, "rebuild") /\ Answers(j, "ok", Built(db).timeline, Built(db))
     \/ Sent(j, "heatmap") /\ Answers(j, "ok", db.units, db)
     \/ Sent(j, "contradictions") /\ Answers(j, "ok", Detected(db).contradictions, Detected(db))
     \/ Sent(j, "resolve") /\ Answers(j, "ok", <<>>, [db EXCEPT !.contradictions[Arg(j)] = "resolved"])
     \/ Sent(j, "extract") /\ Answers(j, "ok", j.n, db)
     \/ /\ j.op \in StoryOps /\ j.stage = "sent"
        /\ LET rows == RowAdded(db, Unit(ChunkName(j), Blank)) IN Answers(j, "ok", SessionOut(rows), rows)
     \/ Sent(j, "preview") /\ Answers(j, "ok", [unlocked |-> Complete(db.units)], db)
     \/ Sent(j, "receipts") /\ Answers(j, "ok", Active(db), db)
     \/ Sent(j, "createReceipt") /\ Answers(j, "ok", j.n, [db EXCEPT !.receipts = @ \cup {j.n}])
     \/ Sent(j, "attach") /\ LET rows == [db EXCEPT !.consent = Arg(j)]
                             IN Answers(j, "ok", SessionOut(rows), rows)
     \/ Sent(j, "generate") /\ LET rows == Generated(db, j.n)
                               IN Answers(j, "ok", rows # db, rows)
  /\ Serves

-----------------------------------------------------------------------------
(* The answers.                                                            *)

\* What a panel keeps of an answer, while it is the one that asked.
Panelled(state, j, name, panel) == IF InPanel(j, name) THEN [state EXCEPT !.panel = panel] ELSE state

Keyed(state, j) == IF j.code = "noKey" THEN Hidden(state) ELSE state

Data(j) == IF j.code = "ok" THEN [ui.panel EXCEPT !.data = Body(j)] ELSE ui.panel

HearReplay(j) ==
  /\ Heard(j, "replay") \/ Heard(j, "rebuild")
  /\ Over(j)
  /\ ui' = Keyed(Panelled(ui, j, "replay", [Data(j) EXCEPT !.busy = @ \ {j.op}]), j)
  /\ Hears

HearHeatmap(j) ==
  /\ Heard(j, "heatmap")
  /\ Over(j)
  /\ ui' = Keyed(Panelled(ui, j, "heatmap", Data(j)), j)
  /\ Hears

\* After one is resolved the list is read again, and its button waits for it; the end
\* of either frees whichever button is busy.
HearContradictions(j) ==
  /\ \/ /\ Heard(j, "resolve") /\ j.code = "ok"
        /\ GoesOn(j, "contradictions", Nothing)
        /\ ui' = ui
     \/ /\ Heard(j, "contradictions") \/ (Heard(j, "resolve") /\ j.code # "ok")
        /\ Over(j)
        /\ LET kept == IF j.op = "resolve" THEN ui.panel ELSE Data(j)
           IN ui' = Keyed(Panelled(ui, j, "contradictions", [kept EXCEPT !.busy = {}]), j)
  /\ Hears

HearExtract(j) ==
  /\ Heard(j, "extract")
  /\ Over(j)
  /\ LET kept == IF j.code = "ok" THEN [ui.panel EXCEPT !.result = Body(j)] ELSE ui.panel
     IN ui' = Keyed(Panelled(ui, j, "story", [kept EXCEPT !.busy = @ \ {"extract"}]), j)
  /\ Hears

\* Mutant: nothing is marked when all are added.
MarkedOnlyOne(j) == IF j.op = "addOne" THEN ui.panel.added \cup {Chunk(j)} ELSE ui.panel.added

\* A chunk is marked by its place, once its row is in the grid.
Marked(j) == ui.panel.added \cup {Chunk(j)}

\* A refused key is no banner here: the call of the panel above catches nothing.
HearChunk(j) ==
  /\ j.op \in StoryOps /\ j.stage = "answered"
  /\ LET added == IF j.code = "ok" /\ InPanel(j, "story") THEN [ui EXCEPT !.panel.added = Marked(j)] ELSE ui
         state == IF j.code = "ok" THEN [added EXCEPT !.session = Body(j)] ELSE added
     IN IF j.code = "ok" /\ Arg(j)[2] # {Chunk(j)}
        THEN GoesOn(j, j.op, <<Arg(j)[1], Arg(j)[2] \ {Chunk(j)}>>) /\ ui' = state
        ELSE /\ Over(j)
             /\ ui' = IF InPanel(j, "story") /\ j.op = "addAll"
                      THEN [state EXCEPT !.panel.busy = @ \ {"addAll"}] ELSE state
  /\ Hears

\* The gate is mounted by a preview of a session that has no receipt.
HearPreview(j) ==
  /\ Heard(j, "preview")
  /\ ui' = Keyed(Panelled(ui, j, "preview", Data(j)), j)
  /\ IF j.code = "ok" /\ InPanel(j, "preview") /\ Gated THEN GoesOn(j, "receipts", Nothing) ELSE Over(j)
  /\ Hears

HearReceipts(j) ==
  /\ Heard(j, "receipts")
  /\ Over(j)
  /\ LET kept == IF j.code = "ok" THEN [ui.panel EXCEPT !.receipts = Body(j)] ELSE ui.panel
     IN ui' = Keyed(Panelled(ui, j, "preview", kept), j)
  /\ Hears

\* A receipt that was created is attached; when that fails, it stays.
HearConsent(j) ==
  /\ \/ /\ Heard(j, "createReceipt") /\ j.code = "ok"
        /\ GoesOn(j, "attach", Body(j))
        /\ ui' = ui
     \/ /\ Heard(j, "attach") \/ (Heard(j, "createReceipt") /\ j.code # "ok")
        /\ Over(j)
        /\ LET free == Panelled(ui, j, "preview", [ui.panel EXCEPT !.busy = @ \ {"consent"}])
           IN ui' = IF j.op = "attach" THEN Changed(free, j) ELSE Keyed(free, j)
  /\ Hears

HearGenerate(j) ==
  /\ Heard(j, "generate")
  /\ Over(j)
  /\ LET result == IF j.code = "ok" THEN Body(j) ELSE "error"
     IN ui' = Keyed(Panelled(ui, j, "preview",
                             [ui.panel EXCEPT !.result = result, !.busy = @ \ {"generate"}]), j)
  /\ Hears

HearPanels(j) ==
  \/ HearReplay(j) \/ HearHeatmap(j) \/ HearContradictions(j) \/ HearExtract(j) \/ HearChunk(j)
  \/ HearPreview(j) \/ HearReceipts(j) \/ HearConsent(j) \/ HearGenerate(j)

\* Elsewhere a receipt is withdrawn.
Withdraw ==
  /\ page = "scout"
  /\ acts < MaxActs[page]
  /\ acts' = acts + 1
  /\ calm' = FALSE
  /\ \E r \in Active(db) : db' = [db EXCEPT !.revoked = @ \cup {r}]
  /\ UNCHANGED <<page, jobs, ui, tidy, faults>>
=============================================================================
